---- MODULE Spec2Model ----
(***************************************************************************)
(* Model of backend/main.go: one TranscriptionSession.                     *)
(*                                                                         *)
(* Three goroutines share the session: handleConnection (the reader, then  *)
(* clean-up and saveToS3), handleTranscriptionEvents (event relay and      *)
(* processTranscriptEvent) and sendAudioToTranscribe (audio forwarder).    *)
(* A text is a sequence of one-character strings, so that                  *)
(* strings.Contains, strings.Replace and strings.TrimSpace are computed    *)
(* character by character.                                                 *)
(***************************************************************************)
EXTENDS Integers, Sequences, FiniteSets, TLC

(***************************************************************************)
(* Bounds of the model and program constants.                              *)
(***************************************************************************)
\* up to this length, every text over Alphabet is a final text of the
\* reconciler runs
MaxTextLen == 1
\* oracle events delivered in one session (general runs)
MaxEvents == 3
\* binary frames the client sends in one session (general runs)
MaxFrames == 1
\* values the wall clock can take when saveToS3 formats the timestamp
MaxClock == 1
\* events the oracle delivers in the runs under fair scheduling
MaxFairEvents == 2
\* audio frames the client sends in the end-to-end scenario
E2EFrames == 5
\* make(chan []byte, 100)
AudioChanCap == 100
\* the last three segments are scanned: i >= len(s.transcripts)-3
RecentWindow == 3
\* oracle events delivered in one session (reconciler runs): enough finals
\* to fill the window of recent segments, and one more
MaxRecEvents == RecentWindow + 1
\* oracle events delivered in one session (window runs): finals to fill the
\* window, one to push the first segment out of it, and its repetition
MaxWindowEvents == RecentWindow + 2

(***************************************************************************)
(* Texts.                                                                  *)
(***************************************************************************)
Alphabet == {"a", "b", " "}

AlphaTexts == UNION {[1..n -> Alphabet] : n \in 0..MaxTextLen}

EmptyText == <<>>

\* unicode.IsSpace, restricted to the characters the model's texts use
IsSpace(c) == c \in {" ", "\t", "\n", "\r"}

\* strings.Contains(s, sub)
Contains(s, sub) ==
    \E i \in 0..(Len(s) - Len(sub)) : SubSeq(s, i + 1, i + Len(sub)) = sub

\* strings.Index(s, sub), 1-based; 0 when sub does not occur
Index(s, sub) ==
    IF Contains(s, sub)
    THEN CHOOSE i \in 1..(Len(s) - Len(sub) + 1) :
            /\ SubSeq(s, i, i + Len(sub) - 1) = sub
            /\ \A j \in 1..(i - 1) : SubSeq(s, j, j + Len(sub) - 1) # sub
    ELSE 0

\* strings.Replace(s, old, "", 1): the first occurrence of old removed
RemoveFirst(s, old) ==
    LET i == Index(s, old)
    IN  IF i = 0 THEN s
        ELSE SubSeq(s, 1, i - 1) \o SubSeq(s, i + Len(old), Len(s))

RECURSIVE TrimLeft(_)
TrimLeft(s) ==
    IF s # <<>> /\ IsSpace(Head(s)) THEN TrimLeft(Tail(s)) ELSE s

RECURSIVE TrimRight(_)
TrimRight(s) ==
    IF s # <<>> /\ IsSpace(s[Len(s)])
    THEN TrimRight(SubSeq(s, 1, Len(s) - 1))
    ELSE s

\* strings.TrimSpace(s)
TrimSpace(s) == TrimRight(TrimLeft(s))

\* strings.Join(ss, " ")
RECURSIVE Join(_)
Join(ss) ==
    IF ss = <<>> THEN <<>>
    ELSE IF Len(ss) = 1 THEN ss[1]
    ELSE ss[1] \o <<" ">> \o Join(Tail(ss))

(***************************************************************************)
(* Texts of the scenarios the specification names.                         *)
(***************************************************************************)
PatientReportsPain ==
    <<"p","a","t","i","e","n","t"," ","r","e","p","o","r","t","s"," ",
      "p","a","i","n">>

InLeftArm == <<"i","n"," ","l","e","f","t"," ","a","r","m">>

PatientReportsPainInLeftArm == PatientReportsPain \o <<" ">> \o InLeftArm

Hel == <<"h","e","l">>

Hello == <<"h","e","l","l","o">>

HelloThere == <<"h","e","l","l","o"," ","t","h","e","r","e">>

(***************************************************************************)
(* Wire messages (WSMessage) and oracle results.                           *)
(***************************************************************************)
NoKey == <<>>

PartialMsg(t) == [type |-> "partial", text |-> t, key |-> NoKey]

FinalMsg(t) == [type |-> "final", text |-> t, key |-> NoKey]

\* mutant of SavedMsg: the key is put in the Text field
SavedMsgKeyAsText(k) == [type |-> "saved", text |-> k, key |-> NoKey]

\* mutant of SavedMsg: the Key field is left unset
SavedMsgNoKey(k) == [type |-> "saved", text |-> EmptyText, key |-> NoKey]

SavedMsg(k) == [type |-> "saved", text |-> EmptyText, key |-> k]

ErrorMsg(t) == [type |-> "error", text |-> t, key |-> NoKey]

NoMsg == [type |-> "none", text |-> EmptyText, key |-> NoKey]

\* one types.MedicalResult: its ranked alternatives and the IsPartial flag
Result(alts, partial) == [alts |-> alts, isPartial |-> partial]

PartialResult(t) == Result(<<t>>, TRUE)

FinalResult(t) == Result(<<t>>, FALSE)

\* what processTranscriptEvent did with a result: skip, partial, accept, discard
Outcome(kind, text) == [kind |-> kind, text |-> text]

\* the empty-payload AudioChunk
EOS == 0

\* s.config.S3Prefix
S3Prefix == "medical-transcriptions"

\* fmt.Sprintf("%s/transcription_%s.txt", s.config.S3Prefix, timestamp)
S3Key(now) == <<S3Prefix, "/transcription_", now, ".txt">>

\* the text frame whose JSON does not parse
NoText == [json |-> FALSE, type |-> "", action |-> ""]

\* before the first text frame is read
NothingRead == [json |-> FALSE, type |-> "none", action |-> ""]

(***************************************************************************)
(* wsHandler: the Config of a session.                                     *)
(***************************************************************************)
\* the fields of Config that wsHandler overrides
Config(specialty, type) ==
    [TranscribeSpecialty |-> specialty, TranscribeType |-> type]

\* the zero value of Config
NoConfig == Config("", "")

\* the address of the struct loadConfig returns, which main hands to every
\* wsHandler call
CfgAddr == 0

\* the session this model follows, and the second one
OwnSid == 1

PeerSid == 2

\* memory after loadConfig with no environment variable set
LoadConfig ==
    [a \in {CfgAddr, OwnSid, PeerSid} |->
        IF a = CfgAddr THEN Config("PRIMARYCARE", "DICTATION") ELSE NoConfig]

\* r.URL.Query().Get("specialty") and Get("type") of the requests the
\* model sends: no parameter, or both
Queries == {<<"", "">>, <<"CARDIOLOGY", "CONVERSATION">>}

\* if specialty == "" { specialty = cfg.TranscribeSpecialty }
OrDefault(value, default) == IF value = "" THEN default ELSE value

\* mutant of SessionConfigAddr: sessionConfig := cfg, the shared pointer
SessionConfigAliased(sid) == CfgAddr

\* sessionConfig := *cfg: the struct is copied, the session's Config is a
\* variable of its own
SessionConfigAddr(sid) == sid

\* s.config of session sid
SessionConfig(heap, sid) == heap[SessionConfigAddr(sid)]

\* wsHandler from the query parameters to the overrides: memory afterwards
WsHandlerConfig(heap, sid, specialty, type) ==
    LET sp == OrDefault(specialty, heap[CfgAddr].TranscribeSpecialty)
        ty == OrDefault(type, heap[CfgAddr].TranscribeType)
        a == SessionConfigAddr(sid)
        copied == [heap EXCEPT ![a] = heap[CfgAddr]]
    IN  [copied EXCEPT ![a] = Config(sp, ty)]

\* the fields of the second session: where its handleConnection is, and the
\* fields the model follows
PeerSession(pc, ts, last, queue, done) ==
    [pc |-> pc, transcripts |-> ts, lastTranscript |-> last,
     audioChan |-> queue, ctxDone |-> done]

\* no second connection yet
NoPeer == PeerSession("none", <<>>, EmptyText, <<>>, FALSE)

(***************************************************************************)
(* State.                                                                  *)
(***************************************************************************)
VARIABLES
    transcripts,     \* s.transcripts
    lastTranscript,  \* s.lastTranscript
    mu,              \* s.mu: "free" or the task holding it
    ctxDone,         \* s.ctx cancelled
    audioChan,       \* audioChan: the buffered frames (frame numbers)
    audioClosed,     \* close(audioChan) done
    doneClosed,      \* close(doneChan) done
    pcMain,          \* position of handleConnection
    pcEvents,        \* position of handleTranscriptionEvents
    pcAudio,         \* position of sendAudioToTranscribe
    evResults,       \* results of the current event still to process
    evMsg,           \* message the event task is about to send
    mainMsg,         \* message the main task is about to send
    fullText,        \* saveToS3's fullText
    audioCur,        \* frame the audio task received and is sending
    wsOut,           \* messages handed to conn.WriteJSON, in order
    oracleIn,        \* eventStream.Send calls: chunk and outcome, in order
    s3Puts,          \* PutObject calls: key, body and outcome, in order
    framesRead,      \* binary frames read from the connection
    framesDropped,   \* frame numbers dropped by the reader's select
    evCount,         \* events the oracle has delivered
    evLast,          \* what became of the result handled last, and its text
    upstreamBroke,   \* the oracle failed an audio Send or closed
                     \* eventStream.Events() while handleConnection was in
                     \* its read loop
    lastRead,        \* the text frame conn.ReadMessage returned last, where
                     \* the run records it
    wsSrc,           \* for each message of wsOut, the result it came from
    peerPuts,        \* PutObject calls of a second session that has the
                     \* same S3Prefix
    configs,         \* the Config structs in memory, by address
    peer             \* a second session served by the same process

vars == <<transcripts, lastTranscript, mu, ctxDone, audioChan, audioClosed,
          doneClosed, pcMain, pcEvents, pcAudio, evResults, evMsg, mainMsg,
          fullText, audioCur, wsOut, oracleIn, s3Puts, framesRead,
          framesDropped, evCount, evLast, upstreamBroke, lastRead, wsSrc,
          peerPuts, configs, peer>>

transcriptVars == <<transcripts, lastTranscript>>

eventVars == <<pcEvents, evResults, evMsg, evCount, evLast>>

audioVars == <<pcAudio, audioCur, oracleIn>>

mainVars == <<pcMain, mainMsg, fullText, s3Puts, framesRead, framesDropped>>

\* everything that belongs to the session the model follows
ownVars == <<transcriptVars, mu, ctxDone, audioChan, audioClosed, doneClosed,
             eventVars, audioVars, mainVars, wsOut, upstreamBroke, lastRead,
             wsSrc>>

\* wsHandler: the session as constructed, before handleConnection runs
Init ==
    /\ transcripts = <<>>
    /\ lastTranscript = EmptyText
    /\ mu = "free"
    /\ ctxDone = FALSE
    /\ audioChan = <<>>
    /\ audioClosed = FALSE
    /\ doneClosed = FALSE
    /\ pcMain = "start"
    /\ pcEvents = "idle"
    /\ pcAudio = "idle"
    /\ evResults = <<>>
    /\ evMsg = NoMsg
    /\ mainMsg = NoMsg
    /\ fullText = EmptyText
    /\ audioCur = EOS
    /\ wsOut = <<>>
    /\ oracleIn = <<>>
    /\ s3Puts = <<>>
    /\ framesRead = 0
    /\ framesDropped = {}
    /\ evCount = 0
    /\ evLast = Outcome("none", EmptyText)
    /\ upstreamBroke = FALSE
    /\ lastRead = NothingRead
    /\ wsSrc = <<>>
    /\ peerPuts = <<>>
    /\ configs = WsHandlerConfig(LoadConfig, OwnSid, "", "")
    /\ peer = NoPeer

(***************************************************************************)
(* processTranscriptEvent: the duplicate test of one final text.           *)
(***************************************************************************)
\* mutant of NewPart: the strings.TrimSpace call is missing
NewPartUntrimmed(text, last) == RemoveFirst(text, last)

\* newPart := strings.TrimSpace(strings.Replace(text, s.lastTranscript, "", 1))
NewPart(text, last) == TrimSpace(RemoveFirst(text, last))

\* mutant of RecentSegments: the loop stops after the most recent segment
RecentSegmentsLastOnly(ts) ==
    [k \in 1..(IF Len(ts) < 1 THEN Len(ts) ELSE 1) |-> ts[Len(ts) - k + 1]]

\* mutant of RecentSegments: the loop runs down to the first segment
RecentSegmentsAll(ts) == [k \in 1..Len(ts) |-> ts[Len(ts) - k + 1]]

\* the segments the loop at i >= len-3 visits, most recent first
RecentSegments(ts) ==
    [k \in 1..(IF Len(ts) < RecentWindow THEN Len(ts) ELSE RecentWindow)
        |-> ts[Len(ts) - k + 1]]

\* the loop over the recent segments sets isDuplicate
ContainsRecent(text, ts) ==
    \E k \in DOMAIN RecentSegments(ts) : Contains(text, RecentSegments(ts)[k])

\* mutant of Branch: the scan of the recent segments is tested before the
\* extension
BranchRecentFirst(ts, last, text) ==
    IF last = EmptyText THEN "first"
    ELSE IF text = last THEN "exact"
    ELSE IF ContainsRecent(text, ts) THEN "recent"
    ELSE IF Contains(text, last) THEN "extension"
    ELSE IF Len(ts) > 0 THEN "recent"
    ELSE "none"

\* the branch of the if/else-if chain the final text takes
Branch(ts, last, text) ==
    IF last = EmptyText THEN "first"
    ELSE IF text = last THEN "exact"
    ELSE IF Contains(text, last) THEN "extension"
    ELSE IF Len(ts) > 0 THEN "recent"
    ELSE "none"

\* mutant of Reconcile: the exact-repeat branch does not set isDuplicate
ReconcileKeepsExact(ts, last, text) ==
    LET b == Branch(ts, last, text)
    IN  IF b = "exact" THEN [dup |-> FALSE, text |-> text]
        ELSE IF b = "extension"
        THEN IF NewPart(text, last) # EmptyText
             THEN [dup |-> FALSE, text |-> NewPart(text, last)]
             ELSE [dup |-> TRUE, text |-> text]
        ELSE IF b = "recent"
        THEN [dup |-> ContainsRecent(text, ts), text |-> text]
        ELSE [dup |-> FALSE, text |-> text]

\* mutant of Reconcile: the first final text is trimmed as a remainder is
ReconcileTrimsFirst(ts, last, text) ==
    LET b == Branch(ts, last, text)
    IN  IF b = "exact" THEN [dup |-> TRUE, text |-> text]
        ELSE IF b = "extension"
        THEN IF NewPart(text, last) # EmptyText
             THEN [dup |-> FALSE, text |-> NewPart(text, last)]
             ELSE [dup |-> TRUE, text |-> text]
        ELSE IF b = "recent"
        THEN [dup |-> ContainsRecent(text, ts), text |-> text]
        ELSE [dup |-> FALSE, text |-> TrimSpace(text)]

\* mutant of Reconcile: the extension branch forgets text = newPart
ReconcileWholeExtension(ts, last, text) ==
    IF last = EmptyText THEN [dup |-> FALSE, text |-> text]
    ELSE IF text = last THEN [dup |-> TRUE, text |-> text]
    ELSE IF Contains(text, last)
    THEN [dup |-> TrimSpace(RemoveFirst(text, last)) = EmptyText,
          text |-> text]
    ELSE [dup |-> \E i \in 1..Len(ts) :
                     i > Len(ts) - RecentWindow /\ Contains(text, ts[i]),
          text |-> text]

\* isDuplicate and text when the critical section reaches "if !isDuplicate"
Reconcile(ts, last, text) ==
    LET b == Branch(ts, last, text)
    IN  IF b = "exact" THEN [dup |-> TRUE, text |-> text]
        ELSE IF b = "extension"
        THEN IF NewPart(text, last) # EmptyText
             THEN [dup |-> FALSE, text |-> NewPart(text, last)]
             ELSE [dup |-> TRUE, text |-> text]
        ELSE IF b = "recent"
        THEN [dup |-> ContainsRecent(text, ts), text |-> text]
        ELSE [dup |-> FALSE, text |-> text]

\* mutant of AppendSegment: a text already in the list is not stored again
AppendSegmentUnlessPresent(ts, text) ==
    IF \E i \in 1..Len(ts) : ts[i] = text THEN ts ELSE Append(ts, text)

\* mutant of AppendSegment: the new text is put in front of the list
AppendSegmentFront(ts, text) == <<text>> \o ts

\* s.transcripts = append(s.transcripts, text)
AppendSegment(ts, text) == Append(ts, text)

(***************************************************************************)
(* sendMessage: s.mu.Lock(); s.conn.WriteJSON(msg); s.mu.Unlock().         *)
(***************************************************************************)
\* mutant of WriteJSON: the message overtakes the ones written before
WriteJSONFirst(out, msg) == <<msg>> \o out

WriteJSON(out, msg) == Append(out, msg)

\* the origin of a message: the number of the event and the position of the
\* result in it
Source(ev, pos) == <<ev, pos>>

\* the origin of the messages that come from no result: saved and error
NoSource == Source(0, 0)

(***************************************************************************)
(* handleTranscriptionEvents and processTranscriptEvent.                   *)
(***************************************************************************)
\* where the task goes on after one result: the next result, or the select
AfterResult(rest) == IF rest = <<>> THEN "select" ELSE "process"

\* the results of the n-th event, each with the event's number and its own
\* position in event.Value.TranscriptEvent.Transcript.Results
Numbered(results, n) ==
    [k \in 1..Len(results) |->
        [alts |-> results[k].alts, isPartial |-> results[k].isPartial,
         ev |-> n, pos |-> k]]

\* case event, ok := <-eventStream.Events() with ok: a transcript event
EvRecv(results) ==
    /\ pcEvents = "select"
    /\ evResults' = Numbered(results, evCount + 1)
    /\ pcEvents' = AfterResult(results)
    /\ evCount' = evCount + 1
    /\ UNCHANGED <<upstreamBroke, lastRead, wsSrc, peerPuts, configs, peer>>
    /\ UNCHANGED <<transcriptVars, evLast, mu, ctxDone, audioChan, audioClosed,
                   doneClosed, evMsg, audioVars, mainVars, wsOut>>

\* return from the task: the deferred eventStream.Close() and close(done)
EvExit ==
    /\ pcEvents' = "exited"
    /\ doneClosed' = TRUE
    /\ UNCHANGED <<lastRead, wsSrc, peerPuts, configs, peer>>
    /\ UNCHANGED <<transcriptVars, evLast, mu, ctxDone, audioChan, audioClosed,
                   evResults, evMsg, evCount, audioVars, mainVars, wsOut>>

\* mutant of EvCtxDone: the select has no case <-s.ctx.Done()
EvCtxDoneMissing ==
    /\ pcEvents = "select"
    /\ ctxDone
    /\ UNCHANGED vars

\* case <-s.ctx.Done(): return
EvCtxDone ==
    /\ pcEvents = "select"
    /\ ctxDone
    /\ EvExit
    /\ UNCHANGED upstreamBroke

\* case event, ok := <-eventStream.Events() with !ok: return
EvStreamClosed ==
    /\ pcEvents = "select"
    /\ upstreamBroke' = (upstreamBroke \/ pcMain = "read")
    /\ EvExit

\* the text of a result: aws.ToString(result.Alternatives[0].Transcript)
TopText(r) == IF Len(r.alts) > 0 THEN r.alts[1] ELSE EmptyText

\* mutant of IsEmptyText: the empty-text test is missing
IsEmptyTextNever(text) == FALSE

\* if text == ""
IsEmptyText(text) == text = EmptyText

\* len(result.Alternatives) == 0, or text == "": continue
EvSkip ==
    /\ pcEvents = "process"
    /\ IsEmptyText(TopText(Head(evResults)))
    /\ evResults' = Tail(evResults)
    /\ pcEvents' = AfterResult(Tail(evResults))
    /\ evLast' = Outcome("skip", EmptyText)
    /\ UNCHANGED <<upstreamBroke, lastRead, wsSrc, peerPuts, configs, peer>>
    /\ UNCHANGED <<transcriptVars, mu, ctxDone, audioChan, audioClosed,
                   doneClosed, evMsg, evCount, audioVars, mainVars, wsOut>>

\* mutant of EvPartial: the partial text is remembered as lastTranscript
EvPartialSetsLast ==
    /\ pcEvents = "process"
    /\ ~IsEmptyText(TopText(Head(evResults)))
    /\ Head(evResults).isPartial
    /\ evMsg' = PartialMsg(TopText(Head(evResults)))
    /\ pcEvents' = "send_lock"
    /\ evLast' = Outcome("partial", TopText(Head(evResults)))
    /\ lastTranscript' = TopText(Head(evResults))
    /\ UNCHANGED <<transcripts, mu, ctxDone, audioChan, audioClosed,
                   doneClosed, evResults, evCount, audioVars, mainVars, wsOut>>
    /\ UNCHANGED <<upstreamBroke, lastRead, wsSrc, peerPuts, configs, peer>>

\* result.IsPartial: msg := WSMessage{Type: "partial", Text: text}
EvPartial ==
    /\ pcEvents = "process"
    /\ ~IsEmptyText(TopText(Head(evResults)))
    /\ Head(evResults).isPartial
    /\ evMsg' = PartialMsg(TopText(Head(evResults)))
    /\ pcEvents' = "send_lock"
    /\ evLast' = Outcome("partial", TopText(Head(evResults)))
    /\ UNCHANGED <<upstreamBroke, lastRead, wsSrc, peerPuts, configs, peer>>
    /\ UNCHANGED <<transcriptVars, mu, ctxDone, audioChan, audioClosed,
                   doneClosed, evResults, evCount, audioVars, mainVars, wsOut>>

\* mutant of EvFinalLock: the duplicate test runs without s.mu.Lock()
EvFinalLockMissing ==
    /\ pcEvents = "process"
    /\ ~IsEmptyText(TopText(Head(evResults)))
    /\ ~Head(evResults).isPartial
    /\ pcEvents' = "critical"
    /\ UNCHANGED <<transcriptVars, evLast, mu, ctxDone, audioChan, audioClosed,
                   doneClosed, evResults, evMsg, evCount, audioVars, mainVars,
                   wsOut>>
    /\ UNCHANGED <<upstreamBroke, lastRead, wsSrc, peerPuts, configs, peer>>

\* !result.IsPartial: s.mu.Lock()
EvFinalLock ==
    /\ pcEvents = "process"
    /\ ~IsEmptyText(TopText(Head(evResults)))
    /\ ~Head(evResults).isPartial
    /\ mu = "free"
    /\ mu' = "events"
    /\ pcEvents' = "critical"
    /\ UNCHANGED <<upstreamBroke, lastRead, wsSrc, peerPuts, configs, peer>>
    /\ UNCHANGED <<transcriptVars, evLast, ctxDone, audioChan, audioClosed,
                   doneClosed, evResults, evMsg, evCount, audioVars, mainVars,
                   wsOut>>

\* mutant of EvReconcile: s.mu.Unlock() comes after the sendMessage call
EvReconcileKeepsLock ==
    /\ pcEvents = "critical"
    /\ LET r == Reconcile(transcripts, lastTranscript,
                          TopText(Head(evResults)))
       IN  IF r.dup
           THEN /\ UNCHANGED <<transcriptVars, evMsg>>
                /\ evResults' = Tail(evResults)
                /\ pcEvents' = AfterResult(Tail(evResults))
                /\ mu' = "free"
           ELSE /\ transcripts' = AppendSegment(transcripts, r.text)
                /\ lastTranscript' = r.text
                /\ evMsg' = FinalMsg(r.text)
                /\ pcEvents' = "send_lock"
                /\ UNCHANGED <<evResults, mu>>
    /\ evLast' = Outcome(IF Reconcile(transcripts, lastTranscript,
                                    TopText(Head(evResults))).dup
                          THEN "discard" ELSE "accept",
                          TopText(Head(evResults)))
    /\ UNCHANGED <<upstreamBroke, lastRead, wsSrc, peerPuts, configs, peer>>
    /\ UNCHANGED <<ctxDone, audioChan, audioClosed, doneClosed, evCount,
                   audioVars, mainVars, wsOut>>

\* mutant of EvReconcile: the final message carries the text as received
EvReconcileSendsRaw ==
    /\ pcEvents = "critical"
    /\ LET r == Reconcile(transcripts, lastTranscript,
                          TopText(Head(evResults)))
       IN  IF r.dup
           THEN /\ UNCHANGED <<transcriptVars, evMsg>>
                /\ evResults' = Tail(evResults)
                /\ pcEvents' = AfterResult(Tail(evResults))
           ELSE /\ transcripts' = AppendSegment(transcripts, r.text)
                /\ lastTranscript' = r.text
                /\ evMsg' = FinalMsg(TopText(Head(evResults)))
                /\ pcEvents' = "send_lock"
                /\ UNCHANGED evResults
    /\ evLast' = Outcome(IF Reconcile(transcripts, lastTranscript,
                                    TopText(Head(evResults))).dup
                          THEN "discard" ELSE "accept",
                          TopText(Head(evResults)))
    /\ mu' = "free"
    /\ UNCHANGED <<upstreamBroke, lastRead, wsSrc, peerPuts, configs, peer>>
    /\ UNCHANGED <<ctxDone, audioChan, audioClosed, doneClosed, evCount,
                   audioVars, mainVars, wsOut>>

\* mutant of EvReconcile: s.lastTranscript is set to the text as received
EvReconcileLastRaw ==
    /\ pcEvents = "critical"
    /\ LET r == Reconcile(transcripts, lastTranscript,
                          TopText(Head(evResults)))
       IN  IF r.dup
           THEN /\ UNCHANGED <<transcriptVars, evMsg>>
                /\ evResults' = Tail(evResults)
                /\ pcEvents' = AfterResult(Tail(evResults))
           ELSE /\ transcripts' = AppendSegment(transcripts, r.text)
                /\ lastTranscript' = TopText(Head(evResults))
                /\ evMsg' = FinalMsg(r.text)
                /\ pcEvents' = "send_lock"
                /\ UNCHANGED evResults
    /\ evLast' = Outcome(IF Reconcile(transcripts, lastTranscript,
                                    TopText(Head(evResults))).dup
                          THEN "discard" ELSE "accept",
                          TopText(Head(evResults)))
    /\ mu' = "free"
    /\ UNCHANGED <<upstreamBroke, lastRead, wsSrc, peerPuts, configs, peer>>
    /\ UNCHANGED <<ctxDone, audioChan, audioClosed, doneClosed, evCount,
                   audioVars, mainVars, wsOut>>

\* the critical section up to s.mu.Unlock(): the duplicate test and the append
EvReconcile ==
    /\ pcEvents = "critical"
    /\ LET r == Reconcile(transcripts, lastTranscript,
                          TopText(Head(evResults)))
       IN  IF r.dup
           THEN /\ UNCHANGED <<transcriptVars, evMsg>>
                /\ evResults' = Tail(evResults)
                /\ pcEvents' = AfterResult(Tail(evResults))
           ELSE /\ transcripts' = AppendSegment(transcripts, r.text)
                /\ lastTranscript' = r.text
                /\ evMsg' = FinalMsg(r.text)
                /\ pcEvents' = "send_lock"
                /\ UNCHANGED evResults
    /\ evLast' = Outcome(IF Reconcile(transcripts, lastTranscript,
                                    TopText(Head(evResults))).dup
                          THEN "discard" ELSE "accept",
                          TopText(Head(evResults)))
    /\ mu' = "free"
    /\ UNCHANGED <<upstreamBroke, lastRead, wsSrc, peerPuts, configs, peer>>
    /\ UNCHANGED <<ctxDone, audioChan, audioClosed, doneClosed, evCount,
                   audioVars, mainVars, wsOut>>

\* mutant of EvSendLock: sendMessage writes without s.mu.Lock()
EvSendLockMissing ==
    /\ pcEvents = "send_lock"
    /\ pcEvents' = "send_write"
    /\ UNCHANGED <<transcriptVars, evLast, mu, ctxDone, audioChan, audioClosed,
                   doneClosed, evResults, evMsg, evCount, audioVars, mainVars,
                   wsOut>>
    /\ UNCHANGED <<upstreamBroke, lastRead, wsSrc, peerPuts, configs, peer>>

\* sendMessage: s.mu.Lock()
EvSendLock ==
    /\ pcEvents = "send_lock"
    /\ mu = "free"
    /\ mu' = "events"
    /\ pcEvents' = "send_write"
    /\ UNCHANGED <<upstreamBroke, lastRead, wsSrc, peerPuts, configs, peer>>
    /\ UNCHANGED <<transcriptVars, evLast, ctxDone, audioChan, audioClosed,
                   doneClosed, evResults, evMsg, evCount, audioVars, mainVars,
                   wsOut>>

\* sendMessage: s.conn.WriteJSON(msg) and the deferred s.mu.Unlock()
EvSendWrite ==
    /\ pcEvents = "send_write"
    /\ wsOut' = WriteJSON(wsOut, evMsg)
    /\ wsSrc' = WriteJSON(wsSrc, Source(Head(evResults).ev,
                                        Head(evResults).pos))
    /\ mu' = "free"
    /\ evMsg' = NoMsg
    /\ evResults' = Tail(evResults)
    /\ pcEvents' = AfterResult(Tail(evResults))
    /\ UNCHANGED <<upstreamBroke, lastRead, peerPuts, configs, peer>>
    /\ UNCHANGED <<transcriptVars, evLast, ctxDone, audioChan, audioClosed,
                   doneClosed, evCount, audioVars, mainVars>>

(***************************************************************************)
(* sendAudioToTranscribe.                                                  *)
(***************************************************************************)
\* one eventStream.Send call and its outcome
SendCall(chunk, ok) == [chunk |-> chunk, ok |-> ok]

\* mutant of AudioRecv: the frame is read but stays at the head of the queue
AudioRecvPeeks ==
    /\ pcAudio = "select"
    /\ audioChan # <<>>
    /\ audioCur' = Head(audioChan)
    /\ pcAudio' = "send"
    /\ UNCHANGED <<upstreamBroke, lastRead, wsSrc, peerPuts, configs, peer>>
    /\ UNCHANGED <<transcriptVars, mu, ctxDone, audioChan, audioClosed,
                   doneClosed, eventVars, oracleIn, mainVars, wsOut>>

\* case audio, ok := <-audioChan with ok: a buffered frame is received
AudioRecv ==
    /\ pcAudio = "select"
    /\ audioChan # <<>>
    /\ audioCur' = Head(audioChan)
    /\ audioChan' = Tail(audioChan)
    /\ pcAudio' = "send"
    /\ UNCHANGED <<upstreamBroke, lastRead, wsSrc, peerPuts, configs, peer>>
    /\ UNCHANGED <<transcriptVars, mu, ctxDone, audioClosed, doneClosed,
                   eventVars, oracleIn, mainVars, wsOut>>

\* eventStream.Send(s.ctx, AudioChunk: audio); err != nil: return
AudioSend(ok) ==
    /\ pcAudio = "send"
    /\ oracleIn' = Append(oracleIn, SendCall(audioCur, ok))
    /\ pcAudio' = IF ok THEN "select" ELSE "exited"
    /\ audioCur' = EOS
    /\ upstreamBroke' = (upstreamBroke \/ (~ok /\ pcMain = "read"))
    /\ UNCHANGED <<lastRead, wsSrc, peerPuts, configs, peer>>
    /\ UNCHANGED <<transcriptVars, mu, ctxDone, audioChan, audioClosed,
                   doneClosed, eventVars, mainVars, wsOut>>

\* <-audioChan with !ok: Send the empty AudioChunk (result ignored); return
AudioChanClosed(ok) ==
    /\ pcAudio = "select"
    /\ audioChan = <<>>
    /\ audioClosed
    /\ oracleIn' = Append(oracleIn, SendCall(EOS, ok))
    /\ pcAudio' = "exited"
    /\ UNCHANGED <<upstreamBroke, lastRead, wsSrc, peerPuts, configs, peer>>
    /\ UNCHANGED <<transcriptVars, mu, ctxDone, audioChan, audioClosed,
                   doneClosed, eventVars, audioCur, mainVars, wsOut>>

\* case <-done: return
AudioDone ==
    /\ pcAudio = "select"
    /\ doneClosed
    /\ pcAudio' = "exited"
    /\ UNCHANGED <<upstreamBroke, lastRead, wsSrc, peerPuts, configs, peer>>
    /\ UNCHANGED <<transcriptVars, mu, ctxDone, audioChan, audioClosed,
                   doneClosed, eventVars, audioCur, oracleIn, mainVars, wsOut>>

\* case <-s.ctx.Done(): return
AudioCtxDone ==
    /\ pcAudio = "select"
    /\ ctxDone
    /\ pcAudio' = "exited"
    /\ UNCHANGED <<upstreamBroke, lastRead, wsSrc, peerPuts, configs, peer>>
    /\ UNCHANGED <<transcriptVars, mu, ctxDone, audioChan, audioClosed,
                   doneClosed, eventVars, audioCur, oracleIn, mainVars, wsOut>>

(***************************************************************************)
(* handleConnection.                                                       *)
(***************************************************************************)
\* StartMedicalStreamTranscription succeeded: both goroutines are started
MainStartOK ==
    /\ pcMain = "start"
    /\ pcMain' = "read"
    /\ pcEvents' = "select"
    /\ pcAudio' = "select"
    /\ UNCHANGED <<upstreamBroke, lastRead, wsSrc, peerPuts, configs, peer>>
    /\ UNCHANGED <<transcriptVars, mu, ctxDone, audioChan, audioClosed,
                   doneClosed, evResults, evMsg, evCount, evLast, audioCur, oracleIn,
                   mainMsg, fullText, s3Puts, framesRead, framesDropped,
                   wsOut>>

\* mutant of MainStartFail: the goroutines are started before the error test
MainStartFailStartsTasks ==
    /\ pcMain = "start"
    /\ mainMsg' = ErrorMsg("Failed to start transcription")
    /\ pcMain' = "send_lock"
    /\ pcEvents' = "select"
    /\ pcAudio' = "select"
    /\ UNCHANGED <<upstreamBroke, lastRead, wsSrc, peerPuts, configs, peer>>
    /\ UNCHANGED <<transcriptVars, mu, ctxDone, audioChan, audioClosed,
                   doneClosed, evResults, evMsg, evCount, evLast, audioCur,
                   oracleIn, fullText, s3Puts, framesRead, framesDropped,
                   wsOut>>

\* StartMedicalStreamTranscription failed: sendError and return
MainStartFail ==
    /\ pcMain = "start"
    /\ mainMsg' = ErrorMsg("Failed to start transcription")
    /\ pcMain' = "send_lock"
    /\ UNCHANGED <<upstreamBroke, lastRead, wsSrc, peerPuts, configs, peer>>
    /\ UNCHANGED <<transcriptVars, mu, ctxDone, audioChan, audioClosed,
                   doneClosed, eventVars, audioVars, fullText, s3Puts,
                   framesRead, framesDropped, wsOut>>

\* mutant of CanSend: the buffer counts as full one frame early
CanSendOffByOne(q) == Len(q) < AudioChanCap - 1

\* the buffered send audioChan <- message can proceed
CanSend(q) == Len(q) < AudioChanCap

\* the cases of the reader's select that are ready; default when none is
ReaderSelect(q, done) ==
    LET ready == (IF CanSend(q) THEN {"send"} ELSE {})
                     \cup (IF done THEN {"ctx"} ELSE {})
    IN  IF ready = {} THEN {"default"} ELSE ready

\* ReadMessage returned a binary message: the select on audioChan
MainReadBinary ==
    /\ pcMain = "read"
    /\ framesRead' = framesRead + 1
    /\ \E c \in ReaderSelect(audioChan, ctxDone) :
          /\ audioChan' = IF c = "send"
                          THEN Append(audioChan, framesRead + 1)
                          ELSE audioChan
          /\ framesDropped' = IF c = "send"
                              THEN framesDropped
                              ELSE framesDropped \cup {framesRead + 1}
    /\ UNCHANGED <<upstreamBroke, lastRead, wsSrc, peerPuts, configs, peer>>
    /\ UNCHANGED <<transcriptVars, mu, ctxDone, audioClosed, doneClosed,
                   eventVars, audioVars, pcMain, mainMsg, fullText, s3Puts,
                   wsOut>>

\* mutant of IsStop: every control message stops the session
IsStopAnyControl(m) == m.json /\ m.type = "control"

\* json.Unmarshal succeeded and msg is {type: "control", action: "stop"}
IsStop(m) == m.json /\ m.type = "control" /\ m.action = "stop"

\* ReadMessage returned a text message: break on the stop command
MainReadText(m) ==
    /\ pcMain = "read"
    /\ pcMain' = IF IsStop(m) THEN "close_chan" ELSE "read"
    /\ UNCHANGED <<upstreamBroke, wsSrc, peerPuts, configs, peer>>
    /\ UNCHANGED <<transcriptVars, mu, ctxDone, audioChan, audioClosed,
                   doneClosed, eventVars, audioVars, mainMsg, fullText,
                   s3Puts, framesRead, framesDropped, wsOut>>

\* mutant of MainReadError: the read error returns from handleConnection
MainReadErrorReturns ==
    /\ pcMain = "read"
    /\ pcMain' = "return"
    /\ UNCHANGED <<transcriptVars, mu, ctxDone, audioChan, audioClosed,
                   doneClosed, eventVars, audioVars, mainMsg, fullText,
                   s3Puts, framesRead, framesDropped, wsOut>>
    /\ UNCHANGED <<upstreamBroke, wsSrc, peerPuts, configs, peer>>

\* ReadMessage returned an error: break
MainReadError ==
    /\ pcMain = "read"
    /\ pcMain' = "close_chan"
    /\ UNCHANGED <<upstreamBroke, wsSrc, peerPuts, configs, peer>>
    /\ UNCHANGED <<transcriptVars, mu, ctxDone, audioChan, audioClosed,
                   doneClosed, eventVars, audioVars, mainMsg, fullText,
                   s3Puts, framesRead, framesDropped, wsOut>>

\* close(audioChan)
MainCloseChan ==
    /\ pcMain = "close_chan"
    /\ audioClosed' = TRUE
    /\ pcMain' = "cancel"
    /\ UNCHANGED <<upstreamBroke, lastRead, wsSrc, peerPuts, configs, peer>>
    /\ UNCHANGED <<transcriptVars, mu, ctxDone, audioChan, doneClosed,
                   eventVars, audioVars, mainMsg, fullText, s3Puts,
                   framesRead, framesDropped, wsOut>>

\* mutant of MainCancel: the s.cancel() call is missing
MainCancelMissing ==
    /\ pcMain = "cancel"
    /\ pcMain' = "wait_done"
    /\ UNCHANGED <<transcriptVars, mu, ctxDone, audioChan, audioClosed,
                   doneClosed, eventVars, audioVars, mainMsg, fullText,
                   s3Puts, framesRead, framesDropped, wsOut>>
    /\ UNCHANGED <<upstreamBroke, lastRead, wsSrc, peerPuts, configs, peer>>

\* s.cancel()
MainCancel ==
    /\ pcMain = "cancel"
    /\ ctxDone' = TRUE
    /\ pcMain' = "wait_done"
    /\ UNCHANGED <<upstreamBroke, lastRead, wsSrc, peerPuts, configs, peer>>
    /\ UNCHANGED <<transcriptVars, mu, audioChan, audioClosed, doneClosed,
                   eventVars, audioVars, mainMsg, fullText, s3Puts,
                   framesRead, framesDropped, wsOut>>

\* mutant of MainWaitDone: the <-doneChan receive is missing
MainWaitDoneNoWait ==
    /\ pcMain = "wait_done"
    /\ pcMain' = IF Len(transcripts) > 0 THEN "save_lock" ELSE "return"
    /\ UNCHANGED <<upstreamBroke, lastRead, wsSrc, peerPuts, configs, peer>>
    /\ UNCHANGED <<transcriptVars, mu, ctxDone, audioChan, audioClosed,
                   doneClosed, eventVars, audioVars, mainMsg, fullText,
                   s3Puts, framesRead, framesDropped, wsOut>>

\* mutant of MainWaitDone: saveToS3 is called without the length test
MainWaitDoneAlwaysSaves ==
    /\ pcMain = "wait_done"
    /\ doneClosed
    /\ pcMain' = "save_lock"
    /\ UNCHANGED <<upstreamBroke, lastRead, wsSrc, peerPuts, configs, peer>>
    /\ UNCHANGED <<transcriptVars, mu, ctxDone, audioChan, audioClosed,
                   doneClosed, eventVars, audioVars, mainMsg, fullText,
                   s3Puts, framesRead, framesDropped, wsOut>>

\* <-doneChan; if len(s.transcripts) > 0 { s.saveToS3() }
MainWaitDone ==
    /\ pcMain = "wait_done"
    /\ doneClosed
    /\ pcMain' = IF Len(transcripts) > 0 THEN "save_lock" ELSE "return"
    /\ UNCHANGED <<upstreamBroke, lastRead, wsSrc, peerPuts, configs, peer>>
    /\ UNCHANGED <<transcriptVars, mu, ctxDone, audioChan, audioClosed,
                   doneClosed, eventVars, audioVars, mainMsg, fullText,
                   s3Puts, framesRead, framesDropped, wsOut>>

(***************************************************************************)
(* saveToS3.                                                               *)
(***************************************************************************)
\* s.mu.Lock()
SaveLock ==
    /\ pcMain = "save_lock"
    /\ mu = "free"
    /\ mu' = "main"
    /\ pcMain' = "save_join"
    /\ UNCHANGED <<upstreamBroke, lastRead, wsSrc, peerPuts, configs, peer>>
    /\ UNCHANGED <<transcriptVars, ctxDone, audioChan, audioClosed,
                   doneClosed, eventVars, audioVars, mainMsg, fullText,
                   s3Puts, framesRead, framesDropped, wsOut>>

\* fullText := strings.Join(s.transcripts, " "); s.mu.Unlock()
SaveJoin ==
    /\ pcMain = "save_join"
    /\ fullText' = Join(transcripts)
    /\ mu' = "free"
    /\ pcMain' = IF Join(transcripts) = EmptyText THEN "return" ELSE "put"
    /\ UNCHANGED <<upstreamBroke, lastRead, wsSrc, peerPuts, configs, peer>>
    /\ UNCHANGED <<transcriptVars, ctxDone, audioChan, audioClosed,
                   doneClosed, eventVars, audioVars, mainMsg, s3Puts,
                   framesRead, framesDropped, wsOut>>

\* one PutObject call and its outcome
PutCall(key, body, ok) == [key |-> key, body |-> body, ok |-> ok]

\* mutant of PutContextDone: the put is issued under s.ctx
PutContextOfSession(sessionDone) == sessionDone

\* ctx := context.WithTimeout(context.Background(), 30*time.Second): the
\* put's context does not descend from s.ctx, whose cancellation never
\* reaches it
PutContextDone(sessionDone) == FALSE

\* mutant of PutReply: the error test after PutObject is missing
PutReplyAlwaysSaved(key, ok) == SavedMsg(key)

\* err != nil: sendError("Failed to save transcription"); else the saved
\* message with the key
PutReply(key, ok) ==
    IF ok THEN SavedMsg(key) ELSE ErrorMsg("Failed to save transcription")

\* s.s3Client.PutObject(ctx, ...) at clock value now: a call under a context
\* that is done fails; otherwise the store decides
SavePut(now, ok) ==
    /\ pcMain = "put"
    /\ PutContextDone(ctxDone) => ~ok
    /\ s3Puts' = Append(s3Puts, PutCall(S3Key(now), fullText, ok))
    /\ mainMsg' = PutReply(S3Key(now), ok)
    /\ pcMain' = "send_lock"
    /\ UNCHANGED <<upstreamBroke, lastRead, wsSrc, peerPuts, configs, peer>>
    /\ UNCHANGED <<transcriptVars, mu, ctxDone, audioChan, audioClosed,
                   doneClosed, eventVars, audioVars, fullText, framesRead,
                   framesDropped, wsOut>>

\* saveToS3 of a second session built from the same cfg: the timestamp, the
\* key and the PutObject call with that session's fullText
PeerSavePut(now, body, ok) ==
    /\ peerPuts = <<>>
    /\ peerPuts' = Append(peerPuts, PutCall(S3Key(now), body, ok))
    /\ UNCHANGED <<transcriptVars, mu, ctxDone, audioChan, audioClosed,
                   doneClosed, eventVars, audioVars, mainVars, wsOut>>
    /\ UNCHANGED <<upstreamBroke, lastRead, wsSrc, configs, peer>>

\* sendMessage: s.mu.Lock()
MainSendLock ==
    /\ pcMain = "send_lock"
    /\ mu = "free"
    /\ mu' = "main"
    /\ pcMain' = "send_write"
    /\ UNCHANGED <<upstreamBroke, lastRead, wsSrc, peerPuts, configs, peer>>
    /\ UNCHANGED <<transcriptVars, ctxDone, audioChan, audioClosed,
                   doneClosed, eventVars, audioVars, mainMsg, fullText,
                   s3Puts, framesRead, framesDropped, wsOut>>

\* sendMessage: s.conn.WriteJSON(msg) and the deferred s.mu.Unlock()
MainSendWrite ==
    /\ pcMain = "send_write"
    /\ wsOut' = WriteJSON(wsOut, mainMsg)
    /\ wsSrc' = WriteJSON(wsSrc, NoSource)
    /\ mu' = "free"
    /\ mainMsg' = NoMsg
    /\ pcMain' = "return"
    /\ UNCHANGED <<upstreamBroke, lastRead, peerPuts, configs, peer>>
    /\ UNCHANGED <<transcriptVars, ctxDone, audioChan, audioClosed,
                   doneClosed, eventVars, audioVars, fullText, s3Puts,
                   framesRead, framesDropped>>

\* handleConnection returns: wsHandler's deferred cancel() and conn.Close()
MainReturn ==
    /\ pcMain = "return"
    /\ ctxDone' = TRUE
    /\ pcMain' = "closed"
    /\ UNCHANGED <<upstreamBroke, lastRead, wsSrc, peerPuts, configs, peer>>
    /\ UNCHANGED <<transcriptVars, mu, audioChan, audioClosed, doneClosed,
                   eventVars, audioVars, mainMsg, fullText, s3Puts,
                   framesRead, framesDropped, wsOut>>

(***************************************************************************)
(* The environment: what the client and the oracle may send.               *)
(***************************************************************************)
TextA == <<"a">>

TextAB == <<"a", " ", "b">>

SessionTexts == {EmptyText, TextA, TextAB}

\* the transcript events of the general runs
OracleEvents ==
    {<<PartialResult(t)>> : t \in SessionTexts}
        \cup {<<FinalResult(t)>> : t \in SessionTexts}
        \cup {<<>>, <<Result(<<>>, FALSE)>>,
              <<FinalResult(TextA), PartialResult(TextAB)>>}

\* longer final texts of the reconciler runs: a text before, after, around
\* and between others, with and without blanks at its ends
LongerTexts ==
    {<<"a", "b">>, <<"b", "a">>, <<"a", " ">>, <<" ", "a">>,
     <<"a", " ", "b">>, <<"b", " ", "a">>, <<"b", " ", "b">>,
     PatientReportsPain, PatientReportsPainInLeftArm}

\* the final texts of the reconciler runs
RecTexts == AlphaTexts \cup LongerTexts

\* the transcript events of the reconciler runs
RecEvents ==
    {<<FinalResult(t)>> : t \in RecTexts}
        \cup {<<PartialResult(t)>> : t \in {EmptyText, TextA}}

\* the transcript events of the end-to-end scenario, in order
E2EEvents ==
    << <<PartialResult(Hel)>>, <<PartialResult(Hello)>>,
       <<FinalResult(HelloThere)>> >>

StopMsg == [json |-> TRUE, type |-> "control", action |-> "stop"]

\* the text frames of the general runs
ClientTexts ==
    {StopMsg,
     NoText,
     [json |-> TRUE, type |-> "control", action |-> "start"],
     [json |-> TRUE, type |-> "audio", action |-> "stop"]}

ClientSendsBinary ==
    /\ framesRead < MaxFrames
    /\ MainReadBinary

ClientSendsText ==
    /\ \E m \in ClientTexts : MainReadText(m)
    /\ UNCHANGED lastRead

ConnectionBreaks ==
    /\ MainReadError
    /\ UNCHANGED lastRead

OracleDelivers ==
    /\ evCount < MaxEvents
    /\ \E e \in OracleEvents : EvRecv(e)

SendReturns == \E ok \in BOOLEAN : AudioSend(ok)

EndOfStreamReturns == \E ok \in BOOLEAN : AudioChanClosed(ok)

PutReturns == \E now \in 0..MaxClock, ok \in BOOLEAN : SavePut(now, ok)

EventSteps ==
    \/ EvSkip
    \/ EvPartial
    \/ EvFinalLock
    \/ EvReconcile
    \/ EvSendLock
    \/ EvSendWrite

AudioSteps ==
    \/ AudioRecv
    \/ SendReturns
    \/ EndOfStreamReturns
    \/ AudioDone
    \/ AudioCtxDone

CleanupSteps ==
    \/ MainCloseChan
    \/ MainCancel
    \/ MainWaitDone
    \/ MainReturn

SaveSteps ==
    \/ SaveLock
    \/ SaveJoin
    \/ PutReturns
    \/ MainSendLock
    \/ MainSendWrite

(***************************************************************************)
(* The general specification: one session, any client, any oracle.         *)
(***************************************************************************)
Next ==
    \/ MainStartOK
    \/ MainStartFail
    \/ ClientSendsBinary
    \/ ClientSendsText
    \/ ConnectionBreaks
    \/ CleanupSteps
    \/ SaveSteps
    \/ OracleDelivers
    \/ EvCtxDone
    \/ EvStreamClosed
    \/ EventSteps
    \/ AudioSteps

Spec == Init /\ [][Next]_vars

(***************************************************************************)
(* The specification under fair scheduling: each of the three goroutines   *)
(* takes a step when it can, and the calls it makes (Send, PutObject,      *)
(* WriteJSON) return; nothing obliges the client to send or to disconnect, *)
(* nor the oracle to deliver an event or to close its stream.  Any client, *)
(* an oracle that delivers up to MaxFairEvents events of FairEvents.       *)
(***************************************************************************)
\* the transcript events of the fair runs
FairEvents ==
    {<<FinalResult(TextA)>>, <<FinalResult(TextAB)>>,
     <<PartialResult(TextA)>>, <<PartialResult(EmptyText)>>}

\* the client of the fair runs sends one frame more, so that a frame can
\* wait in the queue while another is being sent
FairClientSendsBinary ==
    /\ framesRead < MaxFrames + 1
    /\ MainReadBinary

FairOracleDelivers ==
    /\ evCount < MaxFairEvents
    /\ \E e \in FairEvents : EvRecv(e)

NextFair ==
    \/ MainStartOK
    \/ MainStartFail
    \/ FairClientSendsBinary
    \/ ClientSendsText
    \/ ConnectionBreaks
    \/ CleanupSteps
    \/ SaveSteps
    \/ FairOracleDelivers
    \/ EvCtxDone
    \/ EvStreamClosed
    \/ EventSteps
    \/ AudioSteps

\* the steps of handleTranscriptionEvents
EventTask ==
    \/ EvCtxDone
    \/ EventSteps

\* the steps of handleConnection that wait for no client message
MainTask ==
    \/ CleanupSteps
    \/ SaveSteps

Fairness ==
    /\ WF_vars(MainTask)
    /\ WF_vars(EventTask)
    /\ WF_vars(AudioSteps)

SpecFair == Init /\ [][NextFair]_vars /\ Fairness

(***************************************************************************)
(* The reconciler specification: the event task alone, with every final    *)
(* text over Alphabet up to MaxTextLen and the texts of the examples.      *)
(***************************************************************************)
RecDelivers ==
    /\ evCount < MaxRecEvents
    /\ \E e \in RecEvents : EvRecv(e)

NextRec ==
    \/ MainStartOK
    \/ RecDelivers
    \/ EventSteps

SpecRec == Init /\ [][NextRec]_vars

(***************************************************************************)
(* The window specification: the event task alone with finals that do not  *)
(* overlap, enough of them to push a segment out of the window of recent   *)
(* segments and to repeat it afterwards.                                   *)
(***************************************************************************)
\* four texts none of which contains another, and one that contains the
\* first
WindowTexts ==
    {<<"a">>, <<"b">>, <<"c">>, <<"d">>, <<"a", "e">>}

WindowDelivers ==
    /\ evCount < MaxWindowEvents
    /\ \E t \in WindowTexts : EvRecv(<<FinalResult(t)>>)

NextWindow ==
    \/ MainStartOK
    \/ WindowDelivers
    \/ EvFinalLock
    \/ EvReconcile
    \/ EvSendLock
    \/ EvSendWrite

SpecWindow == Init /\ [][NextWindow]_vars

(***************************************************************************)
(* The end-to-end scenario: E2EFrames audio frames, then the events of     *)
(* E2EEvents, then the stop command once the final has been relayed.       *)
(***************************************************************************)
E2EClientSendsBinary ==
    /\ framesRead < E2EFrames
    /\ MainReadBinary

E2EOracleDelivers ==
    /\ framesRead = E2EFrames
    /\ evCount < Len(E2EEvents)
    /\ EvRecv(E2EEvents[evCount + 1])

E2EClientSendsStop ==
    /\ framesRead = E2EFrames
    /\ Len(wsOut) = Len(E2EEvents)
    /\ MainReadText(StopMsg)
    /\ UNCHANGED lastRead

E2EOracleCloses ==
    /\ evCount = Len(E2EEvents)
    /\ EvStreamClosed

NextE2E ==
    \/ MainStartOK
    \/ E2EClientSendsBinary
    \/ E2EClientSendsStop
    \/ CleanupSteps
    \/ SaveSteps
    \/ E2EOracleDelivers
    \/ E2EOracleCloses
    \/ EvCtxDone
    \/ EvPartial
    \/ EvFinalLock
    \/ EvReconcile
    \/ EvSendLock
    \/ EvSendWrite
    \/ AudioSteps

SpecE2E == Init /\ [][NextE2E]_vars

(***************************************************************************)
(* The queue specification: a client that sends one frame more than the    *)
(* queue holds, an oracle that delivers no transcript.                     *)
(***************************************************************************)
QueueClientSendsBinary ==
    /\ framesRead < AudioChanCap + 1
    /\ MainReadBinary

NextQueue ==
    \/ MainStartOK
    \/ QueueClientSendsBinary
    \/ ClientSendsText
    \/ ConnectionBreaks
    \/ CleanupSteps
    \/ EvCtxDone
    \/ EvStreamClosed
    \/ AudioSteps

SpecQueue == Init /\ [][NextQueue]_vars

(***************************************************************************)
(* The archive specification: the end-to-end scenario next to a second     *)
(* session with the same prefix that archives its own text at some second  *)
(* of the same clock.                                                      *)
(***************************************************************************)
PeerText == Hello

PeerSaves ==
    \E now \in 0..MaxClock, ok \in BOOLEAN : PeerSavePut(now, PeerText, ok)

NextArchive ==
    \/ NextE2E
    \/ PeerSaves

SpecArchive == Init /\ [][NextArchive]_vars

(***************************************************************************)
(* The two-session specification: the end-to-end scenario next to a second *)
(* connection served by the same process. The second session runs the same *)
(* code on its own fields; each of its actions is one handler of that code *)
(* taken whole. Its client floods the queue while its audio task is held   *)
(* in a Send call, then its oracle delivers finals and its client stops.   *)
(***************************************************************************)
\* the finals the second session's oracle delivers, in order
PeerFinals == <<Hello, HelloThere>>

\* wsHandler of the second connection, up to handleConnection
PeerConnects(specialty, type) ==
    /\ peer.pc = "none"
    /\ configs' = WsHandlerConfig(configs, PeerSid, specialty, type)
    /\ peer' = PeerSession("start", <<>>, EmptyText, <<>>, FALSE)
    /\ UNCHANGED <<ownVars, peerPuts>>

\* StartMedicalStreamTranscription of the second session succeeds
PeerStartOK ==
    /\ peer.pc = "start"
    /\ peer' = [peer EXCEPT !.pc = "read"]
    /\ UNCHANGED <<ownVars, peerPuts, configs>>

\* StartMedicalStreamTranscription of the second session fails:
\* handleConnection returns, wsHandler's deferred cancel() runs
PeerStartFail ==
    /\ peer.pc = "start"
    /\ peer' = [peer EXCEPT !.pc = "closed", !.ctxDone = TRUE]
    /\ UNCHANGED <<ownVars, peerPuts, configs>>

\* the second session's reader gets a binary frame: queued, or dropped when
\* the queue is full
PeerReadBinary ==
    /\ peer.pc = "read"
    /\ peer' = IF CanSend(peer.audioChan)
               THEN [peer EXCEPT !.audioChan =
                        Append(peer.audioChan, Len(peer.audioChan) + 1)]
               ELSE peer
    /\ UNCHANGED <<ownVars, peerPuts, configs>>

\* processTranscriptEvent of the second session on a final: its critical
\* section under its own s.mu
PeerFinal(text) ==
    /\ peer.pc = "read"
    /\ LET r == Reconcile(peer.transcripts, peer.lastTranscript, text)
       IN  peer' = IF r.dup THEN peer
                   ELSE [peer EXCEPT
                            !.transcripts = AppendSegment(@, r.text),
                            !.lastTranscript = r.text]
    /\ UNCHANGED <<ownVars, peerPuts, configs>>

\* the second session's reader leaves its loop on a read error or a stop
\* command: close(audioChan), s.cancel()
PeerCancel ==
    /\ peer.pc = "read"
    /\ peer' = [peer EXCEPT !.pc = "save", !.ctxDone = TRUE]
    /\ UNCHANGED <<ownVars, peerPuts, configs>>

\* saveToS3 of the second session when it has segments
PeerArchive ==
    /\ peer.pc = "save"
    /\ peer.transcripts # <<>>
    /\ \E now \in 0..MaxClock, ok \in BOOLEAN :
           PeerSavePut(now, Join(peer.transcripts), ok)

\* handleConnection of the second session returns
PeerReturn ==
    /\ peer.pc = "save"
    /\ peer.transcripts = <<>> \/ peerPuts # <<>>
    /\ peer' = [peer EXCEPT !.pc = "closed"]
    /\ UNCHANGED <<ownVars, peerPuts, configs>>

\* the second client sends a frame while no final has come
PeerClientSendsBinary ==
    /\ peer.transcripts = <<>>
    /\ PeerReadBinary

\* the second oracle delivers its next final once the queue is full
PeerOracleDelivers ==
    /\ ~CanSend(peer.audioChan)
    /\ Len(peer.transcripts) < Len(PeerFinals)
    /\ PeerFinal(PeerFinals[Len(peer.transcripts) + 1])

\* the second client sends the stop command once the queue is full
PeerClientSendsStop ==
    /\ ~CanSend(peer.audioChan)
    /\ PeerCancel

PeerSteps ==
    \/ \E q \in Queries : PeerConnects(q[1], q[2])
    \/ PeerStartOK
    \/ PeerStartFail
    \/ PeerClientSendsBinary
    \/ PeerOracleDelivers
    \/ PeerClientSendsStop
    \/ PeerArchive
    \/ PeerReturn

NextTwo ==
    \/ NextE2E
    \/ PeerSteps

SpecTwo == Init /\ [][NextTwo]_vars

(***************************************************************************)
(* The protocol specification: the end-to-end scenario with a client that  *)
(* sends any text frame at any time; the frame read last is recorded.      *)
(***************************************************************************)
ProtocolClientSendsText ==
    \E m \in ClientTexts :
        /\ MainReadText(m)
        /\ lastRead' = m

NextProtocol ==
    \/ MainStartOK
    \/ E2EClientSendsBinary
    \/ ProtocolClientSendsText
    \/ CleanupSteps
    \/ SaveSteps
    \/ E2EOracleDelivers
    \/ E2EOracleCloses
    \/ EvCtxDone
    \/ EvPartial
    \/ EvFinalLock
    \/ EvReconcile
    \/ EvSendLock
    \/ EvSendWrite
    \/ AudioSteps

SpecProtocol == Init /\ [][NextProtocol]_vars

(***************************************************************************)
(* The break specification: the protocol specification with a connection   *)
(* that may fail at any time; the failed read is recorded as well.         *)
(***************************************************************************)
\* what is recorded when ReadMessage returned an error
ReadFailure == [json |-> FALSE, type |-> "read error", action |-> ""]

BreakConnectionBreaks ==
    /\ MainReadError
    /\ lastRead' = ReadFailure

NextBreak ==
    \/ NextProtocol
    \/ BreakConnectionBreaks

SpecBreak == Init /\ [][NextBreak]_vars

(***************************************************************************)
(* Claims about the reconciler, checked under SpecRec.                     *)
(***************************************************************************)
\* the final text the critical section is about to test
IncomingFinal == TopText(Head(evResults))

\* the messages of type "final" in out, as texts, in order
RECURSIVE FinalTexts(_)
FinalTexts(out) ==
    IF out = <<>> THEN <<>>
    ELSE IF Head(out).type = "final"
         THEN <<Head(out).text>> \o FinalTexts(Tail(out))
         ELSE FinalTexts(Tail(out))

\* the critical section leaves the transcript state alone and sends nothing
Discarded ==
    /\ transcripts' = transcripts
    /\ lastTranscript' = lastTranscript
    /\ pcEvents' \in {"process", "select"}
    /\ evMsg' = evMsg
    /\ wsOut' = wsOut

\* C1: a final text that differs from a non-empty lastTranscript and contains
\* it, with a non-empty trimmed remainder after removing its first
\* occurrence, appends exactly that remainder, makes it lastTranscript and
\* hands it to the client writer as the final message.
C1_ExtensionMerge ==
    [][/\ (/\ pcEvents = "critical"
           /\ lastTranscript # EmptyText
           /\ IncomingFinal # lastTranscript
           /\ Contains(IncomingFinal, lastTranscript)
           /\ TrimSpace(RemoveFirst(IncomingFinal, lastTranscript)) # EmptyText)
          => LET rem == TrimSpace(RemoveFirst(IncomingFinal, lastTranscript))
             IN  /\ transcripts' = Append(transcripts, rem)
                 /\ lastTranscript' = rem
                 /\ lastTranscript' # IncomingFinal
                 /\ evMsg' = FinalMsg(rem)
                 /\ pcEvents' = "send_lock"
       /\ (pcEvents = "send_write" /\ evMsg.type = "final")
          => wsOut' = Append(wsOut, FinalMsg(lastTranscript))]_vars

\* C1 witness: the example of the specification has been merged and sent
C1_Witness ==
    /\ transcripts = <<PatientReportsPain, InLeftArm>>
    /\ lastTranscript = InLeftArm
    /\ FinalTexts(wsOut) = <<PatientReportsPain, InLeftArm>>
    /\ evLast = Outcome("accept", PatientReportsPainInLeftArm)

\* C2: with segments ["patient reports pain", "in left arm"] and
\* lastTranscript "in left arm", the final text "patient reports pain in left
\* arm" is discarded: nothing is appended, lastTranscript keeps its value and
\* no final message is sent.
C2_PureRepeatAfterExtension ==
    [][(/\ pcEvents = "critical"
        /\ transcripts = <<PatientReportsPain, InLeftArm>>
        /\ lastTranscript = InLeftArm
        /\ IncomingFinal = PatientReportsPainInLeftArm)
       => Discarded]_vars

\* C3: a non-empty final text that was accepted (verbatim or as a remainder)
\* and is processed again as the very next result is discarded.
C3_IdempotentDiscard ==
    [][(/\ pcEvents = "critical"
        /\ evLast.kind = "accept"
        /\ evLast.text = IncomingFinal)
       => Discarded]_vars

\* C4: a final text that neither equals nor contains lastTranscript and that
\* contains one of the three most recently accepted segments is discarded:
\* no append, lastTranscript unchanged, no final message.
C4_OlderSegmentContainment ==
    [][(/\ pcEvents = "critical"
        /\ IncomingFinal # lastTranscript
        /\ ~Contains(IncomingFinal, lastTranscript)
        /\ \E i \in 1..Len(transcripts) :
              /\ i > Len(transcripts) - 3
              /\ Contains(IncomingFinal, transcripts[i]))
       => Discarded]_vars

\* C4 witness: a final text was discarded that contains the segment before
\* the last one and not the last one
C4_Witness ==
    /\ Len(transcripts) >= 3
    /\ evLast.kind = "discard"
    /\ evLast.text # lastTranscript
    /\ ~Contains(evLast.text, lastTranscript)
    /\ ~Contains(evLast.text, transcripts[Len(transcripts)])
    /\ Contains(evLast.text, transcripts[Len(transcripts) - 1])
    /\ pcEvents = "select"

\* C5: a result whose top alternative is the empty text, partial or final,
\* appends nothing, leaves lastTranscript alone and sends nothing: the task
\* goes on with the next result.
C5_EmptyIsNoOp ==
    [][(/\ pcEvents = "process"
        /\ TopText(Head(evResults)) = EmptyText)
       => /\ Discarded
          /\ mu' = mu
          /\ evResults' = Tail(evResults)]_vars

\* C5 witness: an empty text was skipped in a session that holds segments
C5_Witness ==
    /\ evLast.kind = "skip"
    /\ transcripts # <<>>
    /\ lastTranscript # EmptyText
    /\ wsOut # <<>>

(***************************************************************************)
(* Claims about the session, checked under Spec, SpecE2E and SpecQueue.    *)
(***************************************************************************)
\* the event task has appended a text and not yet written its final message
FinalInFlight ==
    /\ pcEvents \in {"send_lock", "send_write"}
    /\ evMsg.type = "final"

\* C6: the texts of the final messages handed to the client writer are, in
\* order, the segments appended to the list: they are equal whenever no
\* final message is between its append and its write, and otherwise the list
\* is the sent finals followed by the one text about to be sent.
C6_FinalsAreSegments ==
    IF FinalInFlight
    THEN transcripts = Append(FinalTexts(wsOut), evMsg.text)
    ELSE transcripts = FinalTexts(wsOut)

\* C6 witness: a closed session with two accepted segments, both sent, whose
\* last final was discarded
C6_Witness ==
    /\ pcMain = "closed"
    /\ Len(transcripts) = 2
    /\ FinalTexts(wsOut) = transcripts
    /\ evLast.kind = "discard"

\* s is an initial part of t
IsPrefix(s, t) == Len(s) <= Len(t) /\ SubSeq(t, 1, Len(s)) = s

\* C7: every step leaves the segment list as it was or extends it at the
\* end: the list before is a prefix of the list after.
C7_AppendOnly == [][IsPrefix(transcripts, transcripts')]_vars

\* C7 witness: a session that accepted three segments and was archived
C7_Witness ==
    /\ Len(transcripts) = 3
    /\ pcMain = "closed"
    /\ s3Puts # <<>>

\* the messages the end-to-end scenario expects, given the key of the put
E2EExpected(key) ==
    <<PartialMsg(Hel), PartialMsg(Hello), FinalMsg(HelloThere),
      [type |-> "saved", text |-> EmptyText, key |-> key]>>

\* C8: in the end-to-end scenario with a successful put, the closed session
\* has sent the two partials, exactly one final "hello there", then exactly
\* one saved message with the non-empty key of the one put, and nothing
\* follows a saved message.
C8_EndToEnd ==
    /\ \A i \in 1..Len(wsOut) : wsOut[i].type = "saved" => i = Len(wsOut)
    /\ (pcMain = "closed" /\ s3Puts # <<>> /\ s3Puts[1].ok)
       => /\ Len(s3Puts) = 1
          /\ s3Puts[1].key # NoKey
          /\ s3Puts[1].body = HelloThere
          /\ wsOut = E2EExpected(s3Puts[1].key)

\* C8 witness: the scenario ran to the end and the put succeeded
C8_Witness ==
    /\ pcMain = "closed"
    /\ framesRead = E2EFrames
    /\ evCount = Len(E2EEvents)
    /\ s3Puts # <<>>
    /\ s3Puts[1].ok
    /\ Len(wsOut) = 4
    /\ wsOut[4].type = "saved"

\* the reader handles a binary frame in this step
ReaderTakesBinary == pcMain = "read" /\ framesRead' = framesRead + 1

\* C9: the reader is never blocked on a binary frame: while it reads, the
\* step that handles a binary frame is enabled, and that step enqueues the
\* frame when the queue holds fewer than 100 frames, drops it when the queue
\* holds 100, and leaves the reader reading.
C9_ReaderNeverBlocks ==
    /\ [](pcMain = "read" => ENABLED MainReadBinary)
    /\ [][ReaderTakesBinary
          => /\ pcMain' = "read"
             /\ IF Len(audioChan) < 100
                THEN /\ audioChan' = Append(audioChan, framesRead + 1)
                     /\ framesDropped' = framesDropped
                ELSE /\ audioChan' = audioChan
                     /\ framesDropped' = framesDropped \cup {framesRead + 1}]_vars

\* C9 witness: a frame was dropped on a full queue after the audio task
\* exited, and the reader is reading again
C9_Witness ==
    /\ pcMain = "read"
    /\ pcAudio = "exited"
    /\ Len(audioChan) = 100
    /\ framesDropped # {}

\* the positions of the end-of-stream Send calls
EosCalls == {i \in 1..Len(oracleIn) : oracleIn[i].chunk = EOS}

\* C10: once the queue is closed and the audio task has returned, the task
\* has made exactly one end-of-stream Send call, and no audio Send call
\* follows it.
C10_EndOfStreamExactlyOnce ==
    (audioClosed /\ pcAudio = "exited")
    => /\ Cardinality(EosCalls) = 1
       /\ \A i \in EosCalls : i = Len(oracleIn)

\* the messages of type t in out, as positions
MsgsOfType(out, t) == {i \in 1..Len(out) : out[i].type = t}

\* the error message of a failed put
StorageError == ErrorMsg("Failed to save transcription")

\* the error message of a failed start
StartError == ErrorMsg("Failed to start transcription")

\* C11: while the session holds no accepted segment it never enters the
\* archiver, makes no PutObject call, and neither sends nor prepares a saved
\* message or the storage error message; this holds in particular when the
\* session has closed with zero segments.
C11_EmptyTranscriptNoArchive ==
    transcripts = <<>>
    => /\ pcMain \notin {"save_lock", "save_join", "put"}
       /\ s3Puts = <<>>
       /\ MsgsOfType(wsOut, "saved") = {}
       /\ \A i \in 1..Len(wsOut) : wsOut[i] # StorageError
       /\ mainMsg.type # "saved"
       /\ mainMsg # StorageError

\* C11 witness: a session that relayed audio and a partial, accepted no
\* segment and has closed
C11_Witness ==
    /\ pcMain = "closed"
    /\ transcripts = <<>>
    /\ oracleIn # <<>>
    /\ MsgsOfType(wsOut, "partial") # {}
    /\ s3Puts = <<>>

\* C12: when the session reaches PutObject its context is already cancelled,
\* and the call can still return either way at every clock value: the
\* cancellation does not decide its outcome; every closed session with at
\* least one accepted segment has made exactly one PutObject call.
C12_PutSurvivesCancellation ==
    /\ pcMain = "put"
       => /\ ctxDone
          /\ \A now \in 0..MaxClock : \A ok \in BOOLEAN :
                ENABLED SavePut(now, ok)
    /\ (pcMain = "closed" /\ transcripts # <<>>) => Len(s3Puts) = 1

\* C12 witness: the put succeeded in a session whose context was cancelled
\* before, and the saved message went out
C12_Witness ==
    /\ pcMain = "closed"
    /\ ctxDone
    /\ Len(s3Puts) = 1
    /\ s3Puts[1].ok
    /\ MsgsOfType(wsOut, "saved") # {}

\* C13: a session makes at most one PutObject call; once the call has failed
\* the session prepares and then sends the storage error message as its last
\* message and never a saved message; the segment list and lastTranscript
\* do not change at or after the call.
C13_StorageFailure ==
    /\ [](/\ Len(s3Puts) <= 1
          /\ (s3Puts # <<>> /\ ~s3Puts[1].ok)
             => /\ MsgsOfType(wsOut, "saved") = {}
                /\ mainMsg.type # "saved"
                /\ pcMain \in {"send_lock", "send_write", "return", "closed"}
                /\ IF pcMain \in {"send_lock", "send_write"}
                   THEN mainMsg = StorageError /\ MsgsOfType(wsOut, "error") = {}
                   ELSE /\ wsOut # <<>>
                        /\ wsOut[Len(wsOut)] = StorageError
                        /\ MsgsOfType(wsOut, "error") = {Len(wsOut)})
    /\ [][(pcMain = "put" \/ s3Puts # <<>>)
          => /\ transcripts' = transcripts
             /\ lastTranscript' = lastTranscript]_vars

\* C13 witness: the put failed in a session with two segments, and the
\* session closed after the error message
C13_Witness ==
    /\ pcMain = "closed"
    /\ Len(transcripts) = 2
    /\ Len(s3Puts) = 1
    /\ ~s3Puts[1].ok
    /\ wsOut[Len(wsOut)] = StorageError

\* C14: two sessions with the same prefix never use the same storage key,
\* also when both archive within the same second of the clock: no PutObject
\* call of the session has the key of a PutObject call of the second one.
C14_KeysNeverCollide ==
    \A i \in 1..Len(s3Puts) : \A j \in 1..Len(peerPuts) :
        s3Puts[i].key # peerPuts[j].key

\* the start of the recognition stream has failed
StartFailed ==
    \/ mainMsg = StartError
    \/ \E i \in 1..Len(wsOut) : wsOut[i] = StartError

\* C15: after a failed start the session only sends the one error message
\* and closes: neither task is started, no frame is read or queued, no Send
\* call is made, no segment is accepted, no PutObject call is made, and the
\* messages handed to the client writer are exactly that error message.
C15_StartFailure ==
    StartFailed
    => /\ pcEvents = "idle"
       /\ pcAudio = "idle"
       /\ pcMain \in {"send_lock", "send_write", "return", "closed"}
       /\ framesRead = 0
       /\ framesDropped = {}
       /\ audioChan = <<>>
       /\ oracleIn = <<>>
       /\ evCount = 0
       /\ transcripts = <<>>
       /\ s3Puts = <<>>
       /\ IF pcMain \in {"send_lock", "send_write"}
          THEN wsOut = <<>> /\ mainMsg = StartError
          ELSE wsOut = <<StartError>>

\* C15 witness: the session closed after a failed start
C15_Witness ==
    /\ pcMain = "closed"
    /\ wsOut = <<StartError>>
    /\ pcEvents = "idle"

\* the PutObject call of the session has failed
PutFailed == s3Puts # <<>> /\ ~s3Puts[1].ok

\* C16: a closed session in which a fatal condition occurred (the start
\* failed, an audio Send failed or the event stream closed while the
\* session was reading from the client, the put failed) has handed exactly
\* one error message to the client writer.
C16_OneErrorPerFatalCondition ==
    (pcMain = "closed" /\ (StartFailed \/ upstreamBroke \/ PutFailed))
    => Cardinality(MsgsOfType(wsOut, "error")) = 1

\* the frame is neither unparsable nor the stop command
NotStop(m) == ~m.json \/ m.type # "control" \/ m.action # "stop"

\* C18: the step that reads a text frame which is not valid JSON, or is JSON
\* other than {type: "control", action: "stop"}, is taken in the read loop
\* and leaves the reader there; the queue, the segment list, lastTranscript,
\* the cancellation state and the messages sent or prepared are unchanged,
\* and so is everything else but the record of the frame read.
C18_ProtocolViolationIgnored ==
    [][(lastRead' # lastRead /\ NotStop(lastRead'))
       => /\ pcMain = "read"
          /\ pcMain' = "read"
          /\ UNCHANGED <<audioChan, audioClosed, transcripts, lastTranscript,
                         ctxDone, doneClosed, wsOut, mainMsg, evMsg, mu,
                         framesRead, framesDropped, s3Puts, oracleIn,
                         pcEvents, pcAudio>>]_vars

\* C18 witness: a session that holds queued audio and a segment has read a
\* text frame that is JSON but no stop command, and reads on
C18_Witness ==
    /\ lastRead = [json |-> TRUE, type |-> "control", action |-> "start"]
    /\ pcMain = "read"
    /\ audioChan # <<>>
    /\ transcripts # <<>>
    /\ lastTranscript # EmptyText
    /\ ~ctxDone

\* the result src1 comes before the result src2 in the oracle's stream
Before(src1, src2) ==
    \/ src1[1] < src2[1]
    \/ src1[1] = src2[1] /\ src1[2] < src2[2]

\* the positions of the partial and final messages in out
Relayed(out) == MsgsOfType(out, "partial") \cup MsgsOfType(out, "final")

\* C20: the partial and final messages handed to the client writer each
\* come from a result of an event, and a message that was handed over
\* earlier comes from a result the oracle delivered earlier (an earlier
\* event, or an earlier result of the same event): no result is relayed
\* twice and none overtakes another.
C20_EventOrderPreserved ==
    /\ Len(wsSrc) = Len(wsOut)
    /\ \A i \in Relayed(wsOut) :
          /\ wsSrc[i] # NoSource
          /\ wsSrc[i][1] <= evCount
          /\ \A j \in Relayed(wsOut) : i < j => Before(wsSrc[i], wsSrc[j])

\* C20 witness: three messages were relayed, two of them from the two
\* results of one event, after an event that relayed nothing
C20_Witness ==
    /\ Len(wsOut) = 3
    /\ Relayed(wsOut) = {1, 2, 3}
    /\ \E i \in 1..2 :
          /\ wsSrc[i][1] = wsSrc[i + 1][1]
          /\ wsSrc[i][2] = 1
          /\ wsSrc[i + 1][2] = 2
    /\ \E e \in 1..evCount : \A i \in 1..3 : wsSrc[i][1] # e

\* the reader has left its loop: it read the stop command or ReadMessage
\* failed
ReaderStopped == pcMain \notin {"start", "read"}

\* the session has terminated in good order
Terminated ==
    /\ pcMain = "closed"
    /\ audioClosed
    /\ ctxDone
    /\ pcEvents = "exited"
    /\ pcAudio = "exited"
    /\ transcripts # <<>> => Len(s3Puts) = 1

\* C19: under fair scheduling, once the reader has left its loop on the
\* stop command or a read failure, the session eventually has closed the
\* queue, cancelled, seen both tasks exit, made its PutObject call if a
\* segment was accepted, and closed; and from the moment the reader left the
\* loop no frame is read, queued or dropped any more.
C19_GracefulTermination ==
    /\ (pcMain = "close_chan") ~> Terminated
    /\ [][ReaderStopped
          => /\ framesRead' = framesRead
             /\ framesDropped' = framesDropped
             /\ \/ audioChan' = audioChan
                \/ audioChan # <<>> /\ audioChan' = Tail(audioChan)
             /\ ReaderStopped']_vars

\* C19 witness: a session with queued audio and an accepted segment has
\* just left the read loop while both tasks are at work
C19_Witness ==
    /\ pcMain = "close_chan"
    /\ audioChan # <<>>
    /\ transcripts # <<>>
    /\ pcEvents \notin {"exited", "select"}
    /\ pcAudio = "send"

\* C17: under fair scheduling, once the event stream has closed or an audio
\* Send has failed while the reader is in its loop (one of the two tasks has
\* exited), the reader eventually leaves the loop, with no need for a
\* message or a disconnect from the client.
C17_UpstreamEndEndsSession ==
    (pcMain = "read" /\ (pcEvents = "exited" \/ pcAudio = "exited"))
    ~> ReaderStopped

\* C21: a task is inside conn.WriteJSON only while it holds the session
\* lock, so the event task and the main task (the error of a failed start,
\* the saved or error message of the archiver) are never inside a write at
\* the same time; every step that hands a message to the client writer is
\* taken by the holder of the lock and releases it.
C21_WritesSerialized ==
    /\ [](/\ pcEvents = "send_write" => mu = "events"
          /\ pcMain = "send_write" => mu = "main"
          /\ ~(pcEvents = "send_write" /\ pcMain = "send_write"))
    /\ [][wsOut' # wsOut
          => /\ mu \in {"events", "main"}
             /\ mu' = "free"
             /\ Len(wsOut') = Len(wsOut) + 1
             /\ wsOut'[Len(wsOut')].type
                   \in {"partial", "final", "saved", "error"}]_vars

\* C21 witness: the event task is inside the write of a final message while
\* the reader is in its loop
C21_Witness ==
    /\ pcEvents = "send_write"
    /\ evMsg.type = "final"
    /\ mu = "events"
    /\ pcMain = "read"
    /\ wsOut # <<>>

\* C22: the duplicate test, the append and the update of lastTranscript are
\* one critical section: the event task is in it only while it holds the
\* session lock, the archiver reads the segment list only while it holds
\* the lock, so the two are never in their sections together; the segment
\* list and lastTranscript change only in the step that ends the critical
\* section, which decides on the state the section was entered with.
C22_AtomicAccept ==
    /\ [](/\ pcEvents = "critical" => mu = "events"
          /\ pcMain = "save_join" => mu = "main"
          /\ ~(pcEvents = "critical" /\ pcMain = "save_join"))
    /\ [][pcEvents = "critical"
          => /\ transcripts' \in {transcripts,
                                  Append(transcripts, lastTranscript')}
             /\ pcEvents' = "critical" => UNCHANGED transcriptVars]_vars
    /\ [][transcriptVars' # transcriptVars
          => /\ pcEvents = "critical"
             /\ mu = "events"
             /\ mu' = "free"
             /\ pcEvents' # "critical"]_vars

\* C22 witness: the event task holds the lock in the critical section of a
\* second final while the main task has left the read loop
C22_Witness ==
    /\ pcEvents = "critical"
    /\ mu = "events"
    /\ transcripts # <<>>
    /\ pcMain \in {"close_chan", "cancel", "wait_done"}

\* the partial result the event task is about to relay
IncomingPartial ==
    /\ pcEvents = "process"
    /\ Head(evResults).isPartial
    /\ TopText(Head(evResults)) # EmptyText

\* C26: a non-empty partial result becomes the message of type partial with
\* the text of the result as it came, and that message is the one handed to
\* the client writer; from the result to the write the segment list and
\* lastTranscript stay as they are and the lock of the reconciler's
\* critical section is not the way taken.
C26_PartialBypassesReconciler ==
    /\ [][IncomingPartial
          => /\ evMsg' = [type |-> "partial",
                          text |-> Head(evResults).alts[1], key |-> NoKey]
             /\ pcEvents' = "send_lock"
             /\ UNCHANGED <<transcripts, lastTranscript, mu, wsOut>>]_vars
    /\ [][(pcEvents \in {"send_lock", "send_write"} /\ evMsg.type = "partial")
          => /\ UNCHANGED <<transcripts, lastTranscript>>
             /\ evMsg.text = Head(evResults).alts[1]
             /\ pcEvents' # "critical"
             /\ wsOut' # wsOut
                => wsOut' = Append(wsOut,
                                   [type |-> "partial",
                                    text |-> Head(evResults).alts[1],
                                    key |-> NoKey])]_vars

\* C26 witness: a partial was relayed last in a session whose segments and
\* lastTranscript differ from its text
C26_Witness ==
    /\ pcEvents = "select"
    /\ evLast.kind = "partial"
    /\ wsOut # <<>>
    /\ wsOut[Len(wsOut)] = PartialMsg(evLast.text)
    /\ Len(transcripts) = 2
    /\ lastTranscript # evLast.text

\* the algorithm of the design for a non-empty final text T, with no
\* lastAccepted before the first segment is accepted: exact duplicate,
\* extension with its trimmed remainder, containment in one of the three
\* most recent segments, otherwise T verbatim
DesignOutcome(ts, last, T) ==
    LET rem == TrimSpace(RemoveFirst(T, last))
        accept(t) == [accept |-> TRUE, text |-> t,
                      segments |-> Append(ts, t), last |-> t]
        discard == [accept |-> FALSE, text |-> T,
                    segments |-> ts, last |-> last]
    IN  IF ts # <<>> /\ T = last THEN discard
        ELSE IF ts # <<>> /\ Contains(T, last)
        THEN IF rem # EmptyText THEN accept(rem) ELSE discard
        ELSE IF \E i \in 1..Len(ts) :
                   i > Len(ts) - 3 /\ Contains(T, ts[i])
        THEN discard
        ELSE accept(T)

\* C28: for every state of the reconciler and every final text, the event
\* task does what the algorithm of the design does: an empty text is
\* dropped before the critical section, and the critical section discards
\* or accepts as the algorithm says, with the same accepted text, the same
\* new segment list and the same new lastTranscript, and prepares the final
\* message with that text exactly when the text is accepted.
C28_MatchesDesignAlgorithm ==
    /\ [][(pcEvents = "process" /\ ~Head(evResults).isPartial
           /\ TopText(Head(evResults)) = EmptyText)
          => Discarded]_vars
    /\ [][pcEvents = "critical"
          => LET o == DesignOutcome(transcripts, lastTranscript,
                                    IncomingFinal)
             IN  /\ IncomingFinal # EmptyText
                 /\ transcripts' = o.segments
                 /\ lastTranscript' = o.last
                 /\ IF o.accept
                    THEN /\ evMsg' = FinalMsg(o.text)
                         /\ pcEvents' = "send_lock"
                    ELSE Discarded]_vars

\* C28 witness: the four outcomes have all occurred in one session: segments
\* accepted verbatim and as a remainder, and a text discarded last
C28_Witness ==
    /\ Len(transcripts) = 3
    /\ evLast.kind = "discard"
    /\ evLast.text # lastTranscript
    /\ pcEvents = "select"
    /\ \E i \in 2..3 : Contains(evLast.text, transcripts[i])

\* the trimmed remainder of the incoming final text
IncomingRemainder == TrimSpace(RemoveFirst(IncomingFinal, lastTranscript))

\* C29: a final text that contains lastTranscript with a non-empty remainder
\* and also contains an older one of the recent segments is accepted as its
\* remainder all the same; and a final text that contains lastTranscript is
\* discarded only when it equals it or its remainder is empty, never for
\* containing an older segment.
C29_ExtensionBeforeContainment ==
    /\ [][(/\ pcEvents = "critical"
           /\ lastTranscript # EmptyText
           /\ IncomingFinal # lastTranscript
           /\ Contains(IncomingFinal, lastTranscript)
           /\ IncomingRemainder # EmptyText
           /\ \E i \in 1..(Len(transcripts) - 1) :
                 /\ i > Len(transcripts) - 3
                 /\ Contains(IncomingFinal, transcripts[i]))
          => /\ transcripts' = Append(transcripts, IncomingRemainder)
             /\ lastTranscript' = IncomingRemainder
             /\ evMsg' = FinalMsg(IncomingRemainder)]_vars
    /\ [][(/\ pcEvents = "critical"
           /\ lastTranscript # EmptyText
           /\ Contains(IncomingFinal, lastTranscript)
           /\ transcripts' = transcripts)
          => \/ IncomingFinal = lastTranscript
             \/ IncomingRemainder = EmptyText]_vars

\* C29 witness: the text accepted last, as a remainder, contains the segment
\* that was lastTranscript and the segment before it
C29_Witness ==
    /\ Len(transcripts) >= 3
    /\ evLast.kind = "accept"
    /\ evLast.text # lastTranscript
    /\ lastTranscript = transcripts[Len(transcripts)]
    /\ Contains(evLast.text, transcripts[Len(transcripts) - 1])
    /\ Contains(evLast.text, transcripts[Len(transcripts) - 2])

\* C30: a final text that contains a segment four or more places from the
\* end of the list and none of the last three segments is accepted as it
\* is: it is appended and becomes lastTranscript and the final message.
C30_WindowOfThree ==
    [][(/\ pcEvents = "critical"
        /\ \E i \in 1..Len(transcripts) :
              /\ i <= Len(transcripts) - 3
              /\ Contains(IncomingFinal, transcripts[i])
        /\ \A i \in 1..Len(transcripts) :
              i > Len(transcripts) - 3
              => ~Contains(IncomingFinal, transcripts[i]))
       => /\ transcripts' = Append(transcripts, IncomingFinal)
          /\ lastTranscript' = IncomingFinal
          /\ evMsg' = FinalMsg(IncomingFinal)
          /\ pcEvents' = "send_lock"]_vars

\* C30 witness: the fifth segment was accepted as it came and contains the
\* first segment without being equal to it
C30_Witness ==
    /\ Len(transcripts) = 5
    /\ evLast.kind = "accept"
    /\ evLast.text = lastTranscript
    /\ lastTranscript = transcripts[5]
    /\ transcripts[5] # transcripts[1]
    /\ Contains(transcripts[5], transcripts[1])
    /\ FinalTexts(wsOut) = transcripts

\* the loop of the reader has ended
LoopEnded == pcMain \notin {"start", "read"}

\* C24: the read loop ends only on the stop command or on a failed read,
\* and on either path a session that returns with at least one accepted
\* segment has made exactly one PutObject call, whose body is the joined
\* segments; no session makes more than one.
C24_ArchiveOnEveryPath ==
    /\ Len(s3Puts) <= 1
    /\ LoopEnded => lastRead \in {StopMsg, ReadFailure}
    /\ \A how \in {StopMsg, ReadFailure} :
          (pcMain \in {"return", "closed"} /\ lastRead = how
           /\ transcripts # <<>>)
          => /\ Len(s3Puts) = 1
             /\ s3Puts[1].body = Join(transcripts)

\* C24 witness: the connection broke after a segment was accepted, and the
\* closed session has made its PutObject call
C24_Witness ==
    /\ pcMain = "closed"
    /\ lastRead = ReadFailure
    /\ transcripts # <<>>
    /\ Len(s3Puts) = 1
    /\ s3Puts[1].ok

\* the texts of the error messages
ErrorTexts == {"Failed to start transcription", "Failed to save transcription"}

\* a message of the wire protocol, well formed
WellFormed(msg) ==
    /\ msg.type \in {"partial", "final", "saved", "error"}
    /\ msg.type \in {"partial", "final"}
       => msg.text # EmptyText /\ Len(msg.text) > 0 /\ msg.key = NoKey
    /\ msg.type = "error" => msg.text \in ErrorTexts /\ msg.key = NoKey
    /\ msg.type = "saved"
       => msg.key # NoKey /\ Len(msg.key) > 0 /\ msg.text = EmptyText

\* C27: every message handed to the client writer, and every message a
\* task has prepared for it, has one of the types partial, final, saved and
\* error; partial and final messages carry a non-empty text and no key,
\* error messages one of the two error texts and no key, saved messages a
\* non-empty key and no text.
C27_MessagesWellFormed ==
    /\ \A i \in 1..Len(wsOut) : WellFormed(wsOut[i])
    /\ evMsg # NoMsg => WellFormed(evMsg)
    /\ mainMsg # NoMsg => WellFormed(mainMsg)

\* C27 witness: a closed session has sent a partial, a final and a saved
\* message
C27_Witness ==
    /\ pcMain = "closed"
    /\ MsgsOfType(wsOut, "partial") # {}
    /\ MsgsOfType(wsOut, "final") # {}
    /\ MsgsOfType(wsOut, "saved") # {}

\* a task has returned, or was never started
TaskGone(pc) == pc \in {"exited", "idle"}

\* C25: the cancellation signal fires only when the reader has left its
\* loop, and from then on no frame is read; under fair scheduling, once the
\* signal has fired the event task and the audio task return and
\* handleConnection returns, whatever the client and the oracle do or fail
\* to do from then on.
C25_TasksExitOnCancel ==
    /\ [](ctxDone => LoopEnded)
    /\ [][ctxDone => framesRead' = framesRead /\ lastRead' = lastRead]_vars
    /\ ctxDone ~> (/\ pcMain = "closed"
                   /\ TaskGone(pcEvents)
                   /\ TaskGone(pcAudio))

\* C25 witness: the signal has fired while the event task is about to send
\* a message, the audio task is inside a Send call and frames are queued
C25_Witness ==
    /\ ctxDone
    /\ pcMain = "wait_done"
    /\ pcEvents = "send_lock"
    /\ pcAudio = "send"
    /\ audioChan # <<>>

\* what the claim lists of the session the model follows, and where its
\* three tasks are
OwnState ==
    <<transcripts, lastTranscript, audioChan, ctxDone,
      SessionConfig(configs, OwnSid), pcMain, pcEvents, pcAudio>>

\* the same of the second session
PeerState == <<peer, SessionConfig(configs, PeerSid)>>

\* C23: a step of the second session (connecting, accepting a final,
\* dropping a frame, failing to start, cancelling, archiving) leaves the
\* first session's segment list, lastTranscript, audio queue, cancellation
\* state, config and task positions unchanged, and nothing but a step of
\* the second session changes the same of the second session.
C23_SessionIsolation ==
    [][/\ PeerSteps => OwnState' = OwnState
       /\ PeerState' # PeerState => PeerSteps]_vars

\* C23 witness: the second session, connected with other parameters, has
\* dropped a frame, accepted segments, been cancelled and failed to archive
\* them, while the first session still reads, with segments of its own
C23_Witness ==
    /\ peer.pc = "closed"
    /\ peer.ctxDone
    /\ ~CanSend(peer.audioChan)
    /\ peer.transcripts # <<>>
    /\ peerPuts # <<>>
    /\ ~peerPuts[1].ok
    /\ SessionConfig(configs, PeerSid) # SessionConfig(configs, OwnSid)
    /\ pcMain = "read"
    /\ ~ctxDone
    /\ transcripts # <<>>
    /\ transcripts # peer.transcripts

\* saveToS3 has been called
ArchiveStarted == pcMain \in {"save_lock", "save_join", "put"} \/ s3Puts # <<>>

\* C31: saveToS3 is called only after the event task has returned and
\* closed doneChan; from then on no segment is appended and no partial or
\* final message is sent; the body of every put is the join of all segments
\* the session accepted.
C31_AcceptsPrecedeArchiving ==
    /\ [](ArchiveStarted => pcEvents = "exited" /\ doneClosed)
    /\ [][ArchiveStarted =>
             /\ transcripts' = transcripts
             /\ Relayed(wsOut') = Relayed(wsOut)]_vars
    /\ [](\A i \in 1..Len(s3Puts) : s3Puts[i].body = Join(transcripts))

\* C31 witness: a put of a session that accepted two segments and sent the
\* messages for them
C31_Witness ==
    /\ s3Puts # <<>>
    /\ Len(transcripts) = 2
    /\ Cardinality(MsgsOfType(wsOut, "final")) = 2

\* C33: lastTranscript is the empty string exactly when the segment list is
\* empty, otherwise it is the last element of the list; no element of the
\* list is the empty string.
C33_LastMatchesList ==
    /\ lastTranscript = EmptyText <=> transcripts = <<>>
    /\ transcripts # <<>> => lastTranscript = transcripts[Len(transcripts)]
    /\ \A i \in 1..Len(transcripts) : transcripts[i] # EmptyText

\* C33 witness: the segment accepted last is a remainder, not the text the
\* oracle sent, and the list holds segments before it
C33_Witness ==
    /\ Len(transcripts) >= 2
    /\ evLast.kind = "accept"
    /\ evLast.text # lastTranscript
    /\ pcEvents = "select"

\* C34: while lastTranscript is empty, the critical section accepts the
\* final text as it came, blanks included: it becomes the only segment and
\* lastTranscript, and the final message carries it.
C34_FirstFinalVerbatim ==
    [][(pcEvents = "critical" /\ lastTranscript = EmptyText)
       => /\ IncomingFinal # EmptyText
          /\ transcripts' = <<IncomingFinal>>
          /\ lastTranscript' = IncomingFinal
          /\ evMsg' = FinalMsg(IncomingFinal)
          /\ pcEvents' = "send_lock"]_vars

\* C34 witness: a first final text with a blank at its end has been
\* accepted with the blank
C34_Witness ==
    /\ transcripts = << <<"a", " ">> >>
    /\ lastTranscript = <<"a", " ">>
    /\ evLast = Outcome("accept", <<"a", " ">>)
    /\ pcEvents = "select"
    /\ FinalTexts(wsOut) = << <<"a", " ">> >>

\* C35 as claimed: the segment list never holds the same text in two
\* adjacent positions.
C35_NoAdjacentRepeat ==
    \A i \in 1..(Len(transcripts) - 1) : transcripts[i] # transcripts[i + 1]

\* the critical section appends a segment equal to the one before it
AppendsRepeat ==
    /\ pcEvents = "critical"
    /\ transcripts # <<>>
    /\ Len(transcripts') = Len(transcripts) + 1
    /\ transcripts'[Len(transcripts')] = transcripts[Len(transcripts)]

\* C35: a segment equal to the one before it is stored only as the trimmed
\* remainder of a longer final text that contains lastTranscript; a final
\* text equal to lastTranscript is never stored.
C35_RepeatOnlyAsRemainder ==
    [][/\ AppendsRepeat =>
             /\ IncomingFinal # lastTranscript
             /\ Contains(IncomingFinal, lastTranscript)
             /\ IncomingRemainder = lastTranscript
       /\ (pcEvents = "critical" /\ transcripts # <<>>
              /\ IncomingFinal = lastTranscript)
          => transcripts' = transcripts]_vars

\* C35 witness: after "b", the final "b b" has been accepted as "b"
C35_Witness ==
    /\ transcripts = << <<"b">>, <<"b">> >>
    /\ evLast = Outcome("accept", <<"b", " ", "b">>)
    /\ pcEvents = "select"

\* the lifecycle state of the session, read off handleConnection's position;
\* after a failed start the error is emitted in Starting
Lifecycle ==
    IF pcMain = "closed" THEN "Closed"
    ELSE IF pcMain = "start" \/ pcEvents = "idle" THEN "Starting"
    ELSE IF pcMain = "read" THEN "Active"
    ELSE "Draining"

LifecycleRank(l) ==
    IF l = "Starting" THEN 0
    ELSE IF l = "Active" THEN 1
    ELSE IF l = "Draining" THEN 2
    ELSE 3

\* no message is sent and no put is made in this step
LifecycleQuiet == wsOut' = wsOut /\ s3Puts' = s3Puts

\* neither the event task nor the audio task moves in this step, and no
\* Send call is made
TasksAtRest ==
    /\ pcEvents' = pcEvents
    /\ pcAudio' = pcAudio
    /\ oracleIn' = oracleIn

\* C32: the lifecycle only moves forward; Active is entered only from
\* Starting, with the stream open and both tasks started; Draining is
\* entered only from Active; a put is made only in Draining; in Closed no
\* message is sent, no put is made and no task runs.
C32_LifecycleForward ==
    [][/\ LifecycleRank(Lifecycle') >= LifecycleRank(Lifecycle)
       /\ (Lifecycle' = "Active" /\ Lifecycle # "Active")
          => Lifecycle = "Starting" /\ pcEvents' = "select"
       /\ (Lifecycle' = "Draining" /\ Lifecycle # "Draining")
          => Lifecycle = "Active"
       /\ s3Puts' # s3Puts => Lifecycle = "Draining"
       /\ Lifecycle = "Closed" => LifecycleQuiet /\ TasksAtRest]_vars

\* C36: when saveToS3 has joined the segments, and in every put, the text
\* is the texts of the final messages sent so far, in order, joined by
\* single blanks; the joined text is never empty, so a session with
\* segments never leaves saveToS3 without a put.
C36_StoredMatchesSent ==
    /\ pcMain = "put" =>
          /\ fullText = Join(FinalTexts(wsOut))
          /\ fullText # EmptyText
    /\ \A i \in 1..Len(s3Puts) : s3Puts[i].body = Join(FinalTexts(wsOut))
    /\ (pcMain \in {"return", "closed"} /\ transcripts # <<>>)
          => Len(s3Puts) = 1

\* C36 witness: a put whose body joins two final messages, the second a
\* remainder
C36_Witness ==
    /\ Len(s3Puts) = 1
    /\ s3Puts[1].body = TextAB
    /\ FinalTexts(wsOut) = <<TextA, <<"b">> >>

\* the positions in out of the saved and the error messages
Verdicts(out) == MsgsOfType(out, "saved") \cup MsgsOfType(out, "error")

\* C37: a session sends at most one message that is saved or error; a
\* saved message follows a successful put and carries its key; a saved or
\* error message is the last message of the session.
C37_OneVerdictLast ==
    /\ Cardinality(Verdicts(wsOut)) <= 1
    /\ \A i \in MsgsOfType(wsOut, "saved") :
           /\ Len(s3Puts) = 1
           /\ s3Puts[1].ok
           /\ wsOut[i] = SavedMsg(s3Puts[1].key)
    /\ \A i \in Verdicts(wsOut) : i = Len(wsOut)

\* C37 witness: a saved message at the end of a session that sent partial
\* and final messages
C37_Witness ==
    /\ pcMain = "closed"
    /\ Len(wsOut) >= 3
    /\ wsOut[Len(wsOut)].type = "saved"
    /\ MsgsOfType(wsOut, "partial") # {}
    /\ MsgsOfType(wsOut, "final") # {}

\* the event task is at an s.mu.Lock() call
EventsWantLock ==
    \/ pcEvents = "send_lock"
    \/ /\ pcEvents = "process"
       /\ ~Head(evResults).isPartial
       /\ TopText(Head(evResults)) # EmptyText

\* handleConnection is at an s.mu.Lock() call
MainWantsLock == pcMain \in {"save_lock", "send_lock"}

\* C38: the task that holds s.mu is inside a section that ends with the
\* release and is not at a Lock call itself; a task at a Lock call finds
\* the lock free, so no task ever waits for it; under fair scheduling a
\* held lock is released.
C38_LockNeverDeadlocks ==
    /\ [](mu = "events" => pcEvents \in {"critical", "send_write"})
    /\ [](mu = "main" => pcMain \in {"save_join", "send_write"})
    /\ []((EventsWantLock \/ MainWantsLock) => mu = "free")
    /\ (mu # "free") ~> (mu = "free")

\* C38 witness: handleConnection holds the lock to send its message after
\* the event task has held it for a final text and for its message
C38_Witness ==
    /\ mu = "main"
    /\ pcMain = "send_write"
    /\ mainMsg.type = "saved"
    /\ MsgsOfType(wsOut, "final") # {}

\* this step makes one more Send call, with an audio frame
SendsAudio ==
    /\ Len(oracleIn') = Len(oracleIn) + 1
    /\ oracleIn'[Len(oracleIn')].chunk # EOS

\* C39: the record of Send calls only grows; every audio frame sent is a
\* binary frame the reader received and did not drop, later in the order of
\* reception than every frame sent before it, so no frame is sent twice;
\* the queue grows only by the binary frame just read, at its end, so a
\* text frame is never queued.
C39_AudioFifo ==
    [][/\ oracleIn' # oracleIn =>
             /\ Len(oracleIn') = Len(oracleIn) + 1
             /\ SubSeq(oracleIn', 1, Len(oracleIn)) = oracleIn
       /\ SendsAudio =>
             /\ oracleIn'[Len(oracleIn')].chunk
                    \in (1..framesRead) \ framesDropped
             /\ \A i \in 1..Len(oracleIn) :
                    oracleIn[i].chunk < oracleIn'[Len(oracleIn')].chunk
       /\ Len(audioChan') > Len(audioChan) =>
             /\ framesRead' = framesRead + 1
             /\ audioChan' = Append(audioChan, framesRead')]_vars

\* C39 witness: the first two frames have been sent in order after a later
\* frame was dropped at the full queue
C39_Witness ==
    /\ framesDropped # {}
    /\ Len(oracleIn) >= 2
    /\ oracleIn[1].chunk = 1
    /\ oracleIn[2].chunk = 2
    /\ audioChan # <<>>

\* every Send call so far returned without error
SendsAllOk == \A i \in 1..Len(oracleIn) : oracleIn[i].ok

\* C40: when the audio task has stopped after the queue was closed, and no
\* Send failed, the queue is empty and every frame that was enqueued has
\* been sent, none of them after an end-of-stream chunk.
C40_QueueDrainedAtShutdown ==
    (pcAudio = "exited" /\ audioClosed /\ SendsAllOk)
        => /\ audioChan = <<>>
           /\ \A f \in (1..framesRead) \ framesDropped :
                  \E i \in 1..Len(oracleIn) :
                      /\ oracleIn[i].chunk = f
                      /\ \A j \in 1..(i - 1) : oracleIn[j].chunk # EOS

====
